---- MODULE Spec2Model ----
(***************************************************************************)
(* State-machine models of the WhatsApp auto-reply gateway.                *)
(*                                                                         *)
(*  - WhatsAppHandler (src/whatsapp-handler.js): the registry of clients   *)
(*    keyed by session id, specification SpecWH; its shutdown,             *)
(*    specification SpecShutdown; its listing of the sessions,             *)
(*    specification SpecList.                                              *)
(*  - SessionManager (sessionManager.js, src/unnamed/part_000) with the    *)
(*    socket commands of src/server.js: the life cycle of the single       *)
(*    session, specification SpecSM; sendMessage against the session's     *)
(*    start, authentication, loss and stop, specification SpecSend.        *)
(*  - AIReply.checkRateLimit (ai-reply.js, src/unnamed/part_000): the      *)
(*    per-contact rate limiter, specification SpecRL.                      *)
(*  - AIReply.updateConversationHistory and GeminiAI.updateChatHistory     *)
(*    (geminiAI.js, src/unnamed/part_001): the capped histories,           *)
(*    specification SpecHist.                                              *)
(*  - SessionManager.handleIncomingMessage with GeminiAI.generateReply:    *)
(*    the path of an inbound message to its reply, specification SpecPipe. *)
(*  - WhatsAppBotServer.handleIncomingMessage with AIReply.generateReply   *)
(*    (server.js of the multi-session build, src/unnamed/part_002): the    *)
(*    path of an inbound message of a session, specification SpecSrv.      *)
(*                                                                         *)
(* Every asynchronous method is cut at its awaits: one action per          *)
(* synchronous stretch of code, so that other handlers interleave exactly  *)
(* where the JavaScript event loop lets them.                              *)
(***************************************************************************)
EXTENDS Integers, Sequences, FiniteSets, TLC

\* ---------------------------------------------------------------- bounds
\* How many Client objects are constructed in one run of a model.
MaxAdapters == 2
\* How many destroySession / restartSession calls are in flight at once.
MaxCalls == 1

\* How many callbacks of the SessionManager wait in the event loop at once:
\* suspended restartClient and stopClient calls, reconnect timers, 'qr'
\* handlers.
MaxInFlight == 2
\* 'qr' events are delivered while qrRetries is below this.
MaxQrEvents == 5

\* How many steps of TickMs the clock makes.
MaxTicks == 3

\* How many entries a contact's history is given before it is cleared.
MaxTurns == 12

\* How many inbound messages a run of the reply path handles, and how many
\* of them have handlers running at once.
MaxMessages == 2
MaxOpen == 1
\* How many inbound messages a run of the multi-session reply path handles.
MaxSrvMessages == 3
\* Math.random() is drawn from this many equidistant values of [0, 1).
RandomSteps == 4
\* Replies of up to MaxLenSteps * 25 characters.
MaxLenSteps == 4
\* How often the clock of the sweeps moves, and how many turns a contact
\* stores in each history.
MaxSweepTicks == 3
MaxSweepTurns == 2
\* How many characters the text of a message has at most.
MaxTextLen == 3
\* How many handleIncomingMessage calls are followed one by one.
MaxFlights == 3
\* The texts generateReply returns for one contact.
MaxResults == 3

\* WhatsAppHandler.maxSessions: parseInt(process.env.MAX_SESSIONS) || 10.
\* The models run with MAX_SESSIONS=2 in the environment.
maxSessions == 2

\* Session ids handed to the registry: one more than fits.
SessionIds == 1..(maxSessions + 1)
Handles == 1..MaxAdapters

\* The Clients of the WhatsAppHandler registry.  The registry is followed
\* until it has made one Client more than its capacity: a session that is
\* being restarted, and a registry that is full without it.
MaxClients == maxSessions + 1
ClientHandles == 1..MaxClients
Calls == 1..MaxCalls
\* The contacts that write to the bot.
Contacts == {1, 2}
Messages == 1..MaxMessages

VARIABLES
    clients,    \* WhatsAppHandler.clients: session id -> handle, 0 when absent
    waSid,      \* handle -> session id of the Client (its LocalAuth clientId)
    waSt,       \* handle -> "none" | "live" | "dead" (destroyed, or disconnected)
    nextH,      \* the next Client to be constructed
    calls,      \* in-flight destroySession / restartSession calls
    whOp        \* what the last step returned to a caller of the registry

VARIABLES
    client,     \* SessionManager.client: handle, 0 for null
    smSt,       \* handle -> "none" | "unauth" | "authed" | "ready" | "dead" |
                \* "failed" (it reported auth_failure)
    smNext,     \* the next Client the SessionManager constructs
    isReady,    \* SessionManager.isReady
    qrRetries,  \* SessionManager.qrRetries
    restarting, \* handle -> restartClient calls awaiting its destroy()
    sleeping,   \* restartClient calls in their 3 s sleep
    stopping,   \* handle -> stopClient calls awaiting its destroy()
    timers,     \* pending 5 s reconnect timers
    qrPending,  \* 'qr' handlers awaiting QRCode.toDataURL
    stopped,    \* history: stopClient returned and no start or restart
                \* command came since
    scn         \* history: how far the run is through "a fresh Client, then
                \* 'qr' events only"; -1 when it is not such a run

VARIABLES
    now,        \* Date.now(), in ms
    envLimit,   \* process.env.MESSAGE_RATE_LIMIT: <<>> when unset, else <<n>>
    rateLimits, \* AIReply.rateLimits: contact -> <<>> or <<[count, resetTime]>>
    refLimits,  \* history: the same map kept by a fixed-window counter
    rlOp        \* history: the last checkRateLimit call and its answers

VARIABLES
    conversationHistory, \* AIReply.conversationHistory: contact -> turns
    chatHistory,         \* GeminiAI.chatHistory: contact -> messages
    convLog,    \* history: every turn stored for the contact since it was cleared
    chatLog     \* history: every message stored for the contact since then

VARIABLES
    lastReplyTime, \* GeminiAI.lastReplyTime: contact -> <<>> or <<ms>>
    messageCount,  \* SessionManager.messageCount
    msgs,          \* inbound message -> where its handlers stand (pc) and what
                   \* generateReply returned to them (text), and its history:
                   \* replies delivered, turns stored, count added, handlers
                   \* that caught an error (threw), apologies attempted (apol)
                   \* and whether a filter of the handler matches it (drop)
    replyTimes     \* history: contact -> when replies were delivered to it

VARIABLES
    srvRate,       \* WhatsAppBotServer.rateLimits: contact -> <<>> or <<lastMessage>>
    messagesSent,  \* session.messagesSent
    srvMsg,        \* the message_create handler of the session: where it
                   \* stands, and its history: generateReply calls, replies
                   \* and apologies it sent
    srvSeen        \* history: how many messages have arrived

VARIABLES
    shut,       \* the cleanupAllSessions call: where it stands (pc), its
                \* destroySession calls (d: session id -> pc and client), and
                \* history: nextH when it was called (first)
    list,       \* the getAllSessions call: where it stands, the session and
                \* client it asks for the state of, the sessions it has listed
    hung        \* the clients whose getState() never settles

VARIABLES
    activeSessions, \* WhatsAppBotServer.activeSessions: the session ids it holds
    mkOp            \* the createWhatsAppSession call of the 'generate_qr'
                    \* handler: where it stands, its session id and client,
                    \* and what the last call returned

VARIABLES
    statsTimers \* the intervals that startStatsUpdater has set and that run

VARIABLES
    owed        \* history of the SessionManager: a 'disconnected' event of a
                \* session that was not stopped has not been followed by the
                \* construction of a new Client

VARIABLES
    flight,     \* handleIncomingMessage calls of the SessionManager, in the
                \* order their messages arrived: where each stands (pc), the
                \* Client that raised its message (h), what generateReply
                \* returned (text), and its history: whether an await threw,
                \* how many replies and apologies got through (delivered),
                \* when canReply let it pass (at, -1 if it has not) and which
                \* exchange of the contact it stored (turn)
    sentOrder   \* history: the calls in the order their replies got through

VARIABLES
    fbOp        \* the last GeminiAI.generateReply call whose completion
                \* failed: its text, the failure, the language detected for
                \* the text, the fallback picked and its language

VARIABLES
    sweep       \* the maps the hourly sweeps work on, with the times of their
                \* entries: now (Date.now(), ms), conversationHistory and
                \* rateLimits of AIReply, chatHistory and lastReplyTime of
                \* GeminiAI (a history is the timestamps of its entries), and
                \* the last call (op)

VARIABLES
    genOp       \* GeminiAI.generateReply called one call at a time: the call
                \* (pc, contact c), what the last call returned (ret) and,
                \* history, the times at which a text was returned for each
                \* contact (results)

VARIABLES
    histOp      \* history: the last call on the histories, for clearChatHistory
                \* its contact (c) and whether the contact had a history (had)

VARIABLES
    delayOp     \* the last computation of the typing delay: the parsed
                \* bounds, the length of the reply, the base and the delay

VARIABLES
    sendOp      \* the SessionManager.sendMessage call: where it stands (pc),
                \* the Client it sends through (h), and what the last call
                \* returned (ret)

varsWH == <<clients, waSid, waSt, nextH, calls, whOp>>
varsSM == <<client, smSt, smNext, isReady, qrRetries, restarting, sleeping,
            stopping, timers, qrPending, stopped, scn>>
varsRL == <<now, envLimit, rateLimits, refLimits, rlOp>>
varsHist == <<conversationHistory, chatHistory, convLog, chatLog>>
varsPipe == <<lastReplyTime, messageCount, msgs, replyTimes>>
varsSrv == <<srvRate, messagesSent, srvMsg, srvSeen>>
varsAdmin == <<shut, list, hung>>
vars == <<varsWH, varsSM, varsRL, varsHist, varsPipe, varsSrv, varsAdmin, sendOp, histOp, delayOp,
                activeSessions, mkOp, flight, sentOrder, owed, fbOp, sweep, genOp, statsTimers>>

\* What a step of one program leaves alone: the state of the others.
OnlyWH == UNCHANGED <<varsSM, varsRL, varsHist, varsPipe, varsSrv, varsAdmin, sendOp, histOp, delayOp,
                activeSessions, mkOp, flight, sentOrder, owed, fbOp, sweep, genOp, statsTimers>>
\* A step of the SessionManager also keeps its history: a 'disconnected'
\* event (the only step that arms a timer) of a session that is not stopped
\* is owed a new Client until one is constructed.
OnlySMAndStats ==
    /\ owed' = IF smNext' > smNext THEN FALSE
               ELSE IF timers' > timers /\ ~stopped THEN TRUE
               ELSE owed
    /\ UNCHANGED <<varsWH, varsRL, varsHist, varsPipe, varsSrv, varsAdmin, sendOp, histOp,
                   delayOp, activeSessions, mkOp, flight, sentOrder, fbOp, sweep, genOp>>
\* No step but the 'ready' handler starts a status timer, and none stops
\* one.
OnlySM == OnlySMAndStats /\ UNCHANGED statsTimers
OnlyRL == UNCHANGED <<varsWH, varsSM, varsHist, varsPipe, varsSrv, varsAdmin, sendOp, histOp, delayOp,
                activeSessions, mkOp, flight, sentOrder, owed, fbOp, sweep, genOp, statsTimers>>
OnlyHist ==
    UNCHANGED <<varsWH, varsSM, varsRL, varsPipe, varsSrv, varsAdmin, sendOp, delayOp,
                activeSessions, mkOp, flight, sentOrder, owed, fbOp, sweep, genOp, statsTimers>>
\* GeminiAI.generateReply writes the chat history and lastReplyTime.
OnlyChat ==
    UNCHANGED <<varsWH, varsSM, varsRL, messageCount, msgs, replyTimes, varsSrv, varsAdmin,
                sendOp, delayOp, activeSessions, mkOp, flight, sentOrder, owed, fbOp, sweep,
                genOp, statsTimers>>
\* The reply path reads and writes isReady, now and the chat history.
OnlyPipe ==
    UNCHANGED <<varsWH, client, smSt, smNext, qrRetries, restarting, sleeping, stopping,
                timers, qrPending, stopped, scn, envLimit, rateLimits, refLimits, rlOp,
                conversationHistory, convLog, varsSrv, varsAdmin, sendOp, histOp, delayOp,
                activeSessions, mkOp, flight, sentOrder, owed, fbOp, sweep, genOp, statsTimers>>
\* The multi-session reply path reads now and writes the rate limits.
OnlySrv ==
    UNCHANGED <<varsWH, varsSM, varsHist, varsPipe, varsAdmin, sendOp, histOp, delayOp, now, envLimit,
                refLimits, rlOp, activeSessions, mkOp, flight, sentOrder, owed, fbOp, sweep,
                genOp, statsTimers>>
\* The shutdown and the listing work on the registry.
OnlyAdmin ==
    UNCHANGED <<varsSM, varsRL, varsHist, varsPipe, varsSrv, sendOp, histOp, delayOp, nextH, waSid,
                calls, activeSessions, mkOp, flight, sentOrder, owed, fbOp, sweep, genOp,
                statsTimers>>
\* The typing delay is computed from the environment and the reply alone.
OnlyDelay ==
    UNCHANGED <<varsWH, varsSM, varsRL, varsHist, varsPipe, varsSrv, varsAdmin, sendOp,
                histOp, activeSessions, mkOp, flight, sentOrder, owed, fbOp, sweep, genOp,
                statsTimers>>
\* createWhatsAppSession works on the registry and on activeSessions.
OnlyCreate ==
    UNCHANGED <<varsSM, varsRL, varsHist, varsPipe, varsSrv, varsAdmin, sendOp, histOp,
                delayOp, calls, whOp, flight, sentOrder, owed, fbOp, sweep, genOp, statsTimers>>
\* A handleIncomingMessage call reads isReady and the state of the Clients
\* and writes the chat history, lastReplyTime and messageCount.
OnlyFlight ==
    UNCHANGED <<varsWH, varsSM, varsRL, conversationHistory, convLog, msgs, replyTimes,
                varsSrv, varsAdmin, sendOp, histOp, delayOp, activeSessions, mkOp, owed, fbOp,
                sweep, genOp, statsTimers>>
\* A generateReply call whose completion fails writes no field.
OnlyFallback ==
    UNCHANGED <<varsWH, varsSM, varsRL, varsHist, varsPipe, varsSrv, varsAdmin, sendOp, histOp,
                delayOp, activeSessions, mkOp, flight, sentOrder, owed, sweep, genOp,
                statsTimers>>
\* The sweeps and the stores they clean up after work on sweep alone.
OnlySweep ==
    UNCHANGED <<varsWH, varsSM, varsRL, varsHist, varsPipe, varsSrv, varsAdmin, sendOp, histOp,
                delayOp, activeSessions, mkOp, flight, sentOrder, owed, fbOp, genOp,
                statsTimers>>
\* GeminiAI.generateReply called by itself.
OnlyReply ==
    UNCHANGED <<varsWH, varsSM, varsRL, conversationHistory, convLog, messageCount, msgs,
                replyTimes, varsSrv, varsAdmin, sendOp, histOp, delayOp, activeSessions, mkOp,
                flight, sentOrder, owed, fbOp, sweep, statsTimers>>
\* sendMessage reads isReady and this.client.
OnlySend ==
    UNCHANGED <<varsWH, varsSM, varsRL, varsHist, varsPipe, varsSrv, varsAdmin, histOp, delayOp,
                activeSessions, mkOp, flight, sentOrder, owed, fbOp, sweep, genOp, statsTimers>>

\* ------------------------------------------------------- WhatsAppHandler
Registered == {s \in SessionIds : clients[s] # 0}

\* A call slot.  clean: no createClient has registered the call's session id
\* since the call began.
IdleCall == [op |-> "idle", sid |-> 0, pc |-> "idle", h |-> 0, clean |-> FALSE]

\* What the last step returned to a caller of the registry, if it returned.
\* h: the client createClient returned, the client destroySession looked up.  clean: as in the call.  again: the
\* call was made right after a clean destroySession of the same id returned.
Ret(op, sid, r, h, clean, again) ==
    [op |-> op, sid |-> sid, ret |-> r, h |-> h, clean |-> clean, again |-> again]
NoOp == Ret("none", 0, "none", 0, FALSE, FALSE)

InitWH ==
    /\ clients = [s \in SessionIds |-> 0]
    /\ waSid = [h \in ClientHandles |-> 0]
    /\ waSt = [h \in ClientHandles |-> "none"]
    /\ nextH = 1
    /\ calls = [k \in Calls |-> IdleCall]
    /\ whOp = NoOp

\* clients.has(sessionId), line 66
HasClient(sid) == clients[sid] # 0

\* A slip in the capacity check: > for >=.
AtCapacityOffByOne == Cardinality(Registered) > maxSessions

\* clients.size >= this.maxSessions, line 71
AtCapacity == Cardinality(Registered) >= maxSessions

\* A slip in createClient: the capacity check placed before the lookup.
CreateOutcomeCapacityFirst(sid, ctorOk) ==
    IF AtCapacity THEN "capacity"
    ELSE IF HasClient(sid) THEN "reused"
    ELSE IF ctorOk THEN "created"
    ELSE "ctorThrew"

\* What createClient(sid) does: "reused" (line 68), "capacity" (line 72),
\* "created" (line 121), or "ctorThrew" (new Client threw, line 127).
CreateOutcome(sid, ctorOk) ==
    IF HasClient(sid) THEN "reused"
    ELSE IF AtCapacity THEN "capacity"
    ELSE IF ctorOk THEN "created"
    ELSE "ctorThrew"

\* The client createClient hands back: the registered one (line 68), the new
\* one (line 123), none when it throws.
CreateReturn(sid, out) ==
    IF out = "reused" THEN clients[sid]
    ELSE IF out = "created" THEN nextH
    ELSE 0

\* The in-flight calls on sid are no longer clean once sid is registered anew.
Disturb(cs, sid, out) ==
    [k \in Calls |-> IF out = "created" /\ cs[k].sid = sid
                     THEN [cs[k] EXCEPT !.clean = FALSE] ELSE cs[k]]

\* The body of createClient: it holds no await, so it runs in one step.
createClient(sid, out) ==
    IF out = "created"
    THEN /\ nextH <= MaxClients
         /\ clients' = [clients EXCEPT ![sid] = nextH]
         /\ waSid' = [waSid EXCEPT ![nextH] = sid]
         /\ waSt' = [waSt EXCEPT ![nextH] = "live"]
         /\ nextH' = nextH + 1
    ELSE UNCHANGED <<clients, waSid, waSt, nextH>>

\* A caller invokes createClient(sid).
CreateClient(sid, ctorOk) ==
    LET out == CreateOutcome(sid, ctorOk) IN
    /\ createClient(sid, out)
    /\ whOp' = Ret("createClient", sid, out, CreateReturn(sid, out), FALSE, FALSE)
    /\ calls' = Disturb(calls, sid, out)
    /\ OnlyWH

\* this.clients.delete(sessionId) after client.destroy() resolved, line 264.
DeleteAfterDestroy(sid) == [clients EXCEPT ![sid] = 0]

\* A slip in the catch block: the session stays registered.
DeleteInCatchForgotten(sid) == clients

\* this.clients.delete(sessionId) in the catch block, line 274.
DeleteInCatch(sid) == [clients EXCEPT ![sid] = 0]

\* this.clients.delete(sessionId) in the 'auth_failure' and the
\* 'disconnected' handler, lines 101 and 116.
DeleteOnEvent(sid) == [clients EXCEPT ![sid] = 0]

\* const client = this.clients.get(sessionId), line 254; 0 for undefined.
LookupClient(sid) == clients[sid]

\* A variant of the early return: throwing, as sendMessage does at line 147.
NotFoundThrows == "threw"

\* The value destroySession returns when the session is not registered,
\* line 257.
NotFoundResult == "false"

\* The value destroySession returns from its catch block, line 275.
CatchResult == "false"

\* The value destroySession returns once cleanupSession has settled, line 270.
\* cleanupSession (lines 279-295) catches every error of the file system
\* itself, so the await of line 267 never throws.
CleanupResult(fsOk) == "true"

\* How the destroySession part of call k ends with result r: destroySession
\* returns r to its caller, restartSession goes on to its 2 s wait (the call
\* slot keeps h, the client the session had, 0 for none).
Finish(k, op, sid, r, h, clean, again) ==
    IF op = "restartSession"
    THEN /\ calls' = [calls EXCEPT ![k] =
                [op |-> op, sid |-> sid, pc |-> "wait", h |-> h, clean |-> FALSE]]
         /\ whOp' = NoOp
    ELSE /\ calls' = [calls EXCEPT ![k] = IdleCall]
         /\ whOp' = Ret("destroySession", sid, r, h, clean, again)

\* destroySession up to its first await (lines 254-263): the lookup, the
\* early return, the call of client.destroy().
DestroyStart(k, sid, op) ==
    /\ calls[k].op = "idle"
    /\ IF LookupClient(sid) = 0
       THEN Finish(k, op, sid, NotFoundResult, 0, TRUE,
                   whOp.op = "destroySession" /\ whOp.sid = sid /\ whOp.clean)
       ELSE /\ calls' = [calls EXCEPT ![k] =
                  [op |-> op, sid |-> sid, pc |-> "awaitDestroy", h |-> LookupClient(sid),
                   clean |-> TRUE]]
            /\ whOp' = NoOp
    /\ UNCHANGED <<clients, waSid, waSt, nextH>>
    /\ OnlyWH

DestroySession(k, sid) == DestroyStart(k, sid, "destroySession")

\* client.destroy() resolved: lines 264-267 up to the await of cleanupSession.
DestroyResolved(k) ==
    /\ calls[k].pc = "awaitDestroy"
    /\ waSt' = [waSt EXCEPT ![calls[k].h] = "dead"]
    /\ clients' = DeleteAfterDestroy(calls[k].sid)
    /\ calls' = [calls EXCEPT ![k].pc = "awaitCleanup"]
    /\ whOp' = NoOp
    /\ UNCHANGED <<waSid, nextH>>
    /\ OnlyWH

\* client.destroy() rejected: the catch block, lines 272-275.  Whether the
\* browser behind the Client is gone after a failed destroy is not known.
DestroyRejected(k, closed) ==
    /\ calls[k].pc = "awaitDestroy"
    /\ waSt' = [waSt EXCEPT ![calls[k].h] = IF closed THEN "dead" ELSE @]
    /\ clients' = DeleteInCatch(calls[k].sid)
    /\ Finish(k, calls[k].op, calls[k].sid, CatchResult, calls[k].h, calls[k].clean, FALSE)
    /\ UNCHANGED <<waSid, nextH>>
    /\ OnlyWH

\* The await of cleanupSession settled, with the session directory removed
\* (fsOk) or not: lines 267-270.
CleanupSettled(k, fsOk) ==
    /\ calls[k].pc = "awaitCleanup"
    /\ Finish(k, calls[k].op, calls[k].sid, CleanupResult(fsOk), calls[k].h, calls[k].clean,
              FALSE)
    /\ UNCHANGED <<clients, waSid, waSt, nextH>>
    /\ OnlyWH

\* restartSession (lines 308-319): destroySession, a 2 s wait, createClient.
RestartSession(k, sid) == DestroyStart(k, sid, "restartSession")

RestartCreate(k, ctorOk) ==
    LET sid == calls[k].sid
        out == CreateOutcome(sid, ctorOk) IN
    /\ calls[k].pc = "wait"
    /\ createClient(sid, out)
    /\ calls' = [Disturb(calls, sid, out) EXCEPT ![k] = IdleCall]
    /\ whOp' = Ret("restartSession", sid, out, CreateReturn(sid, out), FALSE, FALSE)
    /\ OnlyWH

\* The 'disconnected' handler of createClient, lines 114-118; cleanupSession
\* runs unawaited and touches files only.  A Client reports it once.
OnDisconnected(h) ==
    /\ waSt[h] = "live"
    /\ clients' = DeleteOnEvent(waSid[h])
    /\ waSt' = [waSt EXCEPT ![h] = "dead"]
    /\ whOp' = NoOp
    /\ UNCHANGED <<waSid, nextH, calls>>
    /\ OnlyWH

\* The 'auth_failure' handler of createClient, lines 99-102.
OnAuthFailure(h) ==
    /\ waSt[h] = "live"
    /\ clients' = DeleteOnEvent(waSid[h])
    /\ waSt' = [waSt EXCEPT ![h] = "dead"]
    /\ whOp' = NoOp
    /\ UNCHANGED <<waSid, nextH, calls>>
    /\ OnlyWH

NextWH ==
    \/ \E sid \in SessionIds, ctorOk \in BOOLEAN : CreateClient(sid, ctorOk)
    \/ \E k \in Calls, sid \in SessionIds : DestroySession(k, sid)
    \/ \E k \in Calls, sid \in SessionIds : RestartSession(k, sid)
    \/ \E k \in Calls : DestroyResolved(k)
    \/ \E k \in Calls, closed \in BOOLEAN : DestroyRejected(k, closed)
    \/ \E k \in Calls, fsOk \in BOOLEAN : CleanupSettled(k, fsOk)
    \/ \E k \in Calls, ctorOk \in BOOLEAN : RestartCreate(k, ctorOk)
    \/ \E h \in ClientHandles : OnDisconnected(h)
    \/ \E h \in ClientHandles : OnAuthFailure(h)

\* ----------------------- WhatsAppHandler: cleanupAllSessions, shutdown
NoDestroy == [pc |-> "none", h |-> 0]

InitAdmin ==
    /\ shut = [pc |-> "idle", d |-> [s \in SessionIds |-> NoDestroy], first |-> 0]
    /\ list = [pc |-> "idle", sid |-> 0, h |-> 0, seen |-> {}]
    /\ hung = {}

\* A slip in cleanupAllSessions: Promise.race for Promise.allSettled.
FirstSettled(d) ==
    \/ \A s \in SessionIds : d[s].pc = "none"
    \/ \E s \in SessionIds : d[s].pc = "settled"

\* Promise.allSettled(cleanupPromises), line 303: every destroySession
\* call has returned.
AllSettled(d) == \A s \in SessionIds : d[s].pc \in {"none", "settled"}

\* Where cleanupAllSessions stands with the destroySession calls d: once
\* the last one has returned, the promise of line 303 resolves and
\* cleanupAllSessions and shutdown return (lines 303-305 and 435) before
\* any other callback runs.
ShutPc(d) == IF AllSettled(d) THEN "done" ELSE "awaiting"

\* The destroySession calls cleanupAllSessions makes, lines 300-301: one for
\* every key of the registry, each up to its await of client.destroy(),
\* line 263.
DestroyAll ==
    [s \in SessionIds |->
        IF HasClient(s) THEN [pc |-> "awaitDestroy", h |-> LookupClient(s)] ELSE NoDestroy]

\* shutdown (lines 432-436) calls cleanupAllSessions, which runs up to its
\* await (lines 297-303).
Shutdown ==
    /\ shut.pc \in {"idle", "done"}
    /\ shut' = [pc |-> ShutPc(DestroyAll), d |-> DestroyAll, first |-> nextH]
    /\ whOp' = NoOp
    /\ UNCHANGED <<clients, waSt, list, hung>>
    /\ OnlyAdmin

\* client.destroy() of one of the calls resolved: lines 264-267.
ShutDestroyResolved(sid) ==
    /\ shut.d[sid].pc = "awaitDestroy"
    /\ waSt' = [waSt EXCEPT ![shut.d[sid].h] = "dead"]
    /\ clients' = DeleteAfterDestroy(sid)
    /\ shut' = [shut EXCEPT !.d[sid].pc = "awaitCleanup"]
    /\ whOp' = NoOp
    /\ UNCHANGED <<list, hung>>
    /\ OnlyAdmin

\* client.destroy() of one of the calls rejected: the catch block, lines
\* 272-275, returns false.
ShutDestroyRejected(sid, closed) ==
    /\ shut.d[sid].pc = "awaitDestroy"
    /\ waSt' = [waSt EXCEPT ![shut.d[sid].h] = IF closed THEN "dead" ELSE @]
    /\ clients' = DeleteInCatch(sid)
    /\ shut' = [shut EXCEPT !.d[sid].pc = "settled",
                            !.pc = ShutPc([shut.d EXCEPT ![sid].pc = "settled"])]
    /\ whOp' = NoOp
    /\ UNCHANGED <<list, hung>>
    /\ OnlyAdmin

\* cleanupSession of one of the calls settled: line 270 returns true.
ShutCleanupSettled(sid, fsOk) ==
    /\ shut.d[sid].pc = "awaitCleanup"
    /\ shut' = [shut EXCEPT !.d[sid].pc = "settled",
                            !.pc = ShutPc([shut.d EXCEPT ![sid].pc = "settled"])]
    /\ whOp' = NoOp
    /\ UNCHANGED <<clients, waSt, list, hung>>
    /\ OnlyAdmin

\* ----------------------------------- WhatsAppHandler: getAllSessions
\* The entries the iterator of line 242 has still to yield.
ToList(seen) == {s \in SessionIds : HasClient(s) /\ s \notin seen}

\* The loop of getAllSessions at the top of an iteration, line 242, having
\* listed seen: with an entry left it calls getClientStatus, which runs up
\* to its await of client.getState(), line 224; with none it returns.
ListNext(seen, sid) ==
    IF ToList(seen) = {}
    THEN [pc |-> "done", sid |-> 0, h |-> 0, seen |-> seen]
    ELSE [pc |-> "awaiting", sid |-> sid, h |-> LookupClient(sid), seen |-> seen]

\* A caller invokes getAllSessions, lines 240-243.
GetAllSessions(sid) ==
    /\ list.pc \in {"idle", "done"}
    /\ ToList({}) # {} => sid \in ToList({})
    /\ ToList({}) = {} => sid = 1
    /\ list' = ListNext({}, sid)
    /\ whOp' = NoOp
    /\ UNCHANGED <<clients, waSt, shut, hung>>
    /\ OnlyAdmin

\* The state query has no time limit: getClientStatus awaits getState()
\* itself, lines 223-224, and arms no timer.
StateQueryAnswers(h) == h \notin hung

\* client.getState() settled, resolved or rejected (lines 225-236 build a
\* status either way); the entry is pushed and the loop goes on, lines
\* 244-250.
ListStateSettled(ok, sid) ==
    LET seen == list.seen \cup {list.sid} IN
    /\ list.pc = "awaiting"
    /\ StateQueryAnswers(list.h)
    /\ ToList(seen) # {} => sid \in ToList(seen)
    /\ ToList(seen) = {} => sid = 1
    /\ list' = ListNext(seen, sid)
    /\ whOp' = NoOp
    /\ UNCHANGED <<clients, waSt, shut, hung>>
    /\ OnlyAdmin

\* The page of a client stops answering: its getState() never settles.
AdapterHangs(h) ==
    /\ waSt[h] = "live"
    /\ h \notin hung
    /\ hung' = hung \cup {h}
    /\ whOp' = NoOp
    /\ UNCHANGED <<clients, waSt, shut, list>>
    /\ OnlyAdmin

NextShutdown ==
    \/ \E sid \in SessionIds, ctorOk \in BOOLEAN : CreateClient(sid, ctorOk)
    \/ \E h \in ClientHandles : OnDisconnected(h)
    \/ Shutdown
    \/ \E sid \in SessionIds : ShutDestroyResolved(sid)
    \/ \E sid \in SessionIds, closed \in BOOLEAN : ShutDestroyRejected(sid, closed)
    \/ \E sid \in SessionIds, fsOk \in BOOLEAN : ShutCleanupSettled(sid, fsOk)

NextList ==
    \/ \E sid \in SessionIds, ctorOk \in BOOLEAN : CreateClient(sid, ctorOk)
    \/ \E h \in ClientHandles : OnDisconnected(h)
    \/ \E sid \in SessionIds : GetAllSessions(sid)
    \/ \E ok \in BOOLEAN, sid \in SessionIds : ListStateSettled(ok, sid)
    \/ \E h \in ClientHandles : AdapterHangs(h)

\* ----------------- WhatsAppBotServer: 'generate_qr', createWhatsAppSession
NoCreate == [pc |-> "idle", sid |-> 0, h |-> 0, ret |-> "none"]

InitCreate ==
    /\ activeSessions = {}
    /\ mkOp = NoCreate

\* The 'generate_qr' handler (part_002 lines 261-266) makes a session id of
\* its own, uuidv4(): the ids are handed out in order, none twice.  It calls
\* createWhatsAppSession, which runs createClient (lines 308-309), subscribes
\* its handlers and awaits client.initialize(), line 362; when createClient
\* throws, the catch blocks of lines 366-369 and 271-278 pass the error on
\* to the caller.
GenerateQr(ctorOk) ==
    LET sid == mkOp.sid + 1
        out == CreateOutcome(sid, ctorOk) IN
    /\ mkOp.pc = "idle"
    /\ sid \in SessionIds
    /\ createClient(sid, out)
    /\ mkOp' = IF out = "created"
               THEN [pc |-> "initializing", sid |-> sid, h |-> nextH, ret |-> "none"]
               ELSE [pc |-> "idle", sid |-> sid, h |-> 0, ret |-> out]
    /\ UNCHANGED activeSessions
    /\ OnlyCreate

\* client.initialize() settled.  Resolved: createWhatsAppSession returns the
\* session and the handler stores it, lines 364 and 267-269.  Rejected: the
\* catch block of lines 366-369 rethrows and the handler reports the error,
\* lines 271-278; whether the browser of the client is gone is not known.
InitializeSettled(ok, closed) ==
    /\ mkOp.pc = "initializing"
    /\ ok => ~closed
    /\ activeSessions' = IF ok THEN activeSessions \cup {mkOp.sid} ELSE activeSessions
    /\ waSt' = [waSt EXCEPT ![mkOp.h] = IF closed THEN "dead" ELSE @]
    /\ mkOp' = [mkOp EXCEPT !.pc = "idle", !.ret = IF ok THEN "ok" ELSE "initThrew"]
    /\ UNCHANGED <<clients, waSid, nextH>>
    /\ OnlyCreate

\* A client reports 'disconnected' or 'auth_failure': the handlers of
\* createClient (whatsapp-handler.js lines 99-102 and 114-118) and those of
\* createWhatsAppSession (part_002 lines 342-347 and 355-359) run one after
\* the other.
SessionEnded(h) ==
    /\ waSt[h] = "live"
    /\ clients' = DeleteOnEvent(waSid[h])
    /\ activeSessions' = activeSessions \ {waSid[h]}
    /\ waSt' = [waSt EXCEPT ![h] = "dead"]
    /\ UNCHANGED <<waSid, nextH, mkOp>>
    /\ OnlyCreate

\* The sessions of activeSessions whose client is h.
SessionsOf(h) == {s \in activeSessions : clients[s] = h}

\* cleanupInactiveSessions (part_002 lines 515-534), run by the cron job
\* of lines 503-505, when the sessions of the set idle have had no
\* activity for SESSION_TIMEOUT: it calls session.client.destroy() on each,
\* not awaited, and deletes it from activeSessions.  It does not call the
\* WhatsAppHandler, and destroy() raises no event.
CleanupInactiveSessions(idle) ==
    /\ idle # {} /\ idle \subseteq activeSessions
    /\ activeSessions' = activeSessions \ idle
    /\ waSt' = [h \in ClientHandles |->
                   IF waSt[h] = "live" /\ SessionsOf(h) \cap idle # {} THEN "dead"
                   ELSE waSt[h]]
    /\ UNCHANGED <<clients, waSid, nextH, mkOp>>
    /\ OnlyCreate

NextCreate ==
    \/ \E ctorOk \in BOOLEAN : GenerateQr(ctorOk)
    \/ \E ok \in BOOLEAN, closed \in BOOLEAN : InitializeSettled(ok, closed)
    \/ \E h \in ClientHandles : SessionEnded(h)
    \/ \E idle \in SUBSET SessionIds : CleanupInactiveSessions(idle)

\* -------------------------------------------------------- SessionManager
\* this.maxQrRetries = 3, line 13
maxQrRetries == 3

InitSM ==
    /\ client = 0
    /\ smSt = [h \in Handles |-> "none"]
    /\ smNext = 1
    /\ isReady = FALSE
    /\ qrRetries = 0
    /\ restarting = [h \in Handles |-> 0]
    /\ sleeping = 0
    /\ stopping = [h \in Handles |-> 0]
    /\ timers = 0
    /\ qrPending = 0
    /\ stopped = FALSE
    /\ scn = -1
    /\ owed = FALSE
    /\ statsTimers = 0

\* A Client that was constructed and neither destroyed nor disconnected.
SMLive(h) == smSt[h] \in {"unauth", "authed", "ready"}
LiveAdapters == {h \in Handles : SMLive(h)}

RECURSIVE SumTo(_, _)
SumTo(f, n) == IF n = 0 THEN 0 ELSE f[n] + SumTo(f, n - 1)
\* The calls counted in f, over all Clients.
Waiting(f) == SumTo(f, MaxAdapters)
InFlight == Waiting(restarting) + sleeping + Waiting(stopping) + timers + qrPending
CanSuspend == InFlight < MaxInFlight

\* Nothing is going on: no callback waits and no Client is live.
Quiet(inFlight) == InFlight = inFlight /\ LiveAdapters = {}

\* initializeClient up to its await (lines 33-62): the new Client overwrites
\* this.client.  What client.initialize() settles to changes no field.
initializeClient ==
    /\ smNext <= MaxAdapters
    /\ client' = smNext
    /\ smSt' = [smSt EXCEPT ![smNext] = "unauth"]
    /\ smNext' = smNext + 1

\* restartClient up to its first await (lines 315-326), called when the
\* counter is q: with a Client it awaits client.destroy(), without one it
\* runs on to the 3 s sleep.
restartClient(q) ==
    IF client # 0
    THEN /\ restarting' = [restarting EXCEPT ![client] = @ + 1]
         /\ qrRetries' = q
         /\ UNCHANGED <<isReady, sleeping>>
    ELSE /\ isReady' = FALSE
         /\ qrRetries' = 0
         /\ sleeping' = sleeping + 1
         /\ UNCHANGED restarting

\* socket 'start_bot', src/server.js lines 229-248.
StartBot ==
    /\ IF isReady THEN UNCHANGED <<client, smSt, smNext>> ELSE initializeClient
    /\ stopped' = FALSE
    /\ scn' = IF ~isReady /\ Quiet(0) /\ qrRetries = 0 THEN 0 ELSE -1
    /\ UNCHANGED <<isReady, qrRetries, restarting, sleeping, stopping, timers, qrPending>>
    /\ OnlySM

\* POST /api/restart, src/server.js lines 186-197.
ApiRestart ==
    /\ CanSuspend
    /\ restartClient(qrRetries)
    /\ stopped' = FALSE
    /\ scn' = -1
    /\ UNCHANGED <<client, smSt, smNext, stopping, timers, qrPending>>
    /\ OnlySM

\* client.destroy() of a restartClient call resolved: lines 322-326.
RestartDestroyResolved(h) ==
    /\ restarting[h] > 0
    /\ restarting' = [restarting EXCEPT ![h] = @ - 1]
    /\ smSt' = [smSt EXCEPT ![h] = "dead"]
    /\ isReady' = FALSE
    /\ qrRetries' = 0
    /\ sleeping' = sleeping + 1
    /\ scn' = IF scn = maxQrRetries + 1 THEN scn + 1 ELSE -1
    /\ UNCHANGED <<client, smNext, stopping, timers, qrPending, stopped>>
    /\ OnlySM

\* client.destroy() of a restartClient call rejected: the catch block, lines
\* 330-333, ends the restart.  Whether the browser is gone is not known.
RestartDestroyRejected(h, closed) ==
    /\ restarting[h] > 0
    /\ restarting' = [restarting EXCEPT ![h] = @ - 1]
    /\ smSt' = [smSt EXCEPT ![h] = IF closed THEN "dead" ELSE @]
    /\ scn' = -1
    /\ UNCHANGED <<client, smNext, isReady, qrRetries, sleeping, stopping, timers,
                   qrPending, stopped>>
    /\ OnlySM

\* The 3 s sleep of a restartClient call is over: initializeClient, line 328.
RestartSleepDone ==
    /\ sleeping > 0
    /\ sleeping' = sleeping - 1
    /\ initializeClient
    /\ scn' = IF scn = maxQrRetries + 2 THEN scn + 1
              ELSE IF Quiet(1) /\ qrRetries = 0 /\ ~isReady THEN 0
              ELSE -1
    /\ UNCHANGED <<isReady, qrRetries, restarting, stopping, timers, qrPending, stopped>>
    /\ OnlySM

\* socket 'stop_bot' (src/server.js lines 251-263): stopClient up to its
\* await, lines 338-343; without a Client it returns at once.
StopBot ==
    /\ IF client # 0
       THEN /\ CanSuspend
            /\ isReady' = FALSE
            /\ stopping' = [stopping EXCEPT ![client] = @ + 1]
            /\ UNCHANGED stopped
       ELSE /\ stopped' = TRUE
            /\ UNCHANGED <<isReady, stopping>>
    /\ scn' = -1
    /\ UNCHANGED <<client, smSt, smNext, qrRetries, restarting, sleeping, timers, qrPending>>
    /\ OnlySM

\* client.destroy() of a stopClient call resolved: this.client = null, line
\* 344, whatever this.client holds by now.
StopDestroyResolved(h) ==
    /\ stopping[h] > 0
    /\ stopping' = [stopping EXCEPT ![h] = @ - 1]
    /\ smSt' = [smSt EXCEPT ![h] = "dead"]
    /\ client' = 0
    /\ stopped' = TRUE
    /\ scn' = -1
    /\ UNCHANGED <<smNext, isReady, qrRetries, restarting, sleeping, timers, qrPending>>
    /\ OnlySM

\* client.destroy() of a stopClient call rejected: the catch block, lines
\* 350-352; this.client stays.
StopDestroyRejected(h, closed) ==
    /\ stopping[h] > 0
    /\ stopping' = [stopping EXCEPT ![h] = @ - 1]
    /\ smSt' = [smSt EXCEPT ![h] = IF closed THEN "dead" ELSE @]
    /\ stopped' = TRUE
    /\ scn' = -1
    /\ UNCHANGED <<client, smNext, isReady, qrRetries, restarting, sleeping, timers,
                   qrPending>>
    /\ OnlySM

\* The 'disconnected' handler, lines 140-150: it arms the 5 s timer.  The
\* Client closes its browser after the event.
SMDisconnected(h) ==
    /\ SMLive(h)
    /\ CanSuspend
    /\ smSt' = [smSt EXCEPT ![h] = "dead"]
    /\ isReady' = FALSE
    /\ timers' = timers + 1
    /\ scn' = -1
    /\ UNCHANGED <<client, smNext, qrRetries, restarting, sleeping, stopping, qrPending,
                   stopped>>
    /\ OnlySM

\* The 5 s timer of the 'disconnected' handler fires: restartClient, line 148.
ReconnectTimer ==
    /\ timers > 0
    /\ timers' = timers - 1
    /\ restartClient(qrRetries)
    /\ scn' = -1
    /\ UNCHANGED <<client, smSt, smNext, stopping, qrPending, stopped>>
    /\ OnlySM

\* The 'qr' handler up to its await of QRCode.toDataURL, lines 74-87.  A
\* Client asks for a scan until it is authenticated.
SMQr(h) ==
    /\ smSt[h] = "unauth"
    /\ CanSuspend
    /\ qrRetries < MaxQrEvents
    /\ qrPending' = qrPending + 1
    /\ scn' = IF scn \in 0..maxQrRetries /\ qrPending = 0 THEN scn ELSE -1
    /\ UNCHANGED <<client, smSt, smNext, isReady, qrRetries, restarting, sleeping,
                   stopping, timers, stopped>>
    /\ OnlySM

\* A slip in the 'qr' handler: >= for >.
QrLimitReachedEarly(q) == q >= maxQrRetries

\* this.qrRetries > this.maxQrRetries, line 92
QrLimitReached(q) == q > maxQrRetries

\* QRCode.toDataURL settled: lines 89-95, or the catch block of lines 97-100.
\* restartClient is called without await and runs up to its own first await.
SMQrEncoded(ok) ==
    /\ qrPending > 0
    /\ qrPending' = qrPending - 1
    /\ IF ok /\ QrLimitReached(qrRetries + 1)
       THEN restartClient(qrRetries + 1)
       ELSE /\ qrRetries' = IF ok THEN qrRetries + 1 ELSE qrRetries
            /\ UNCHANGED <<isReady, restarting, sleeping>>
    /\ scn' = IF ok /\ scn \in 0..maxQrRetries THEN scn + 1 ELSE -1
    /\ UNCHANGED <<client, smSt, smNext, stopping, timers, stopped>>
    /\ OnlySM

\* The 'authenticated' handler, lines 104-108.
SMAuthenticated(h) ==
    /\ smSt[h] = "unauth"
    /\ smSt' = [smSt EXCEPT ![h] = "authed"]
    /\ qrRetries' = 0
    /\ scn' = -1
    /\ UNCHANGED <<client, smNext, isReady, restarting, sleeping, stopping, timers,
                   qrPending, stopped>>
    /\ OnlySM

\* Whether lines 117-118 of the 'ready' handler of Client h get through:
\* this.client.info is there once this.client has been ready, and reading
\* it throws when this.client is null.  Of a Client that is gone the model
\* does not keep whether it had been ready.
InfoRead(h) ==
    IF client = 0 THEN {FALSE}
    ELSE IF client = h \/ smSt[client] = "ready" THEN {TRUE}
    ELSE IF smSt[client] = "dead" THEN BOOLEAN
    ELSE {FALSE}

\* startStatsUpdater, lines 298-311: setInterval, whose handle is dropped;
\* no clearInterval is in the class.
startStatsUpdater == statsTimers + 1

\* The fields the 'ready' handler of Client h writes, lines 111-114.
ready(h) ==
    /\ smSt[h] = "authed"
    /\ smSt' = [smSt EXCEPT ![h] = "ready"]
    /\ isReady' = TRUE
    /\ scn' = -1
    /\ UNCHANGED <<client, smNext, qrRetries, restarting, sleeping, stopping, timers,
                   qrPending, stopped>>

\* The 'ready' handler, lines 111-127, with the status timers out of sight:
\* a status timer only reports, no step reads statsTimers.
SMReady(h) ==
    /\ ready(h)
    /\ OnlySM

\* The 'ready' handler, lines 111-127, with the status timers in sight.
SMReadyStartsStats(h) ==
    /\ ready(h)
    /\ \E info \in InfoRead(h) :
          statsTimers' = IF info THEN startStatsUpdater ELSE statsTimers
    /\ OnlySMAndStats

\* The 'auth_failure' handler, lines 152-156: it logs and tells the
\* front end.  A Client reports it while it authenticates, and closes its
\* browser after the event.
SMAuthFailure(h) ==
    /\ smSt[h] = "unauth"
    /\ smSt' = [smSt EXCEPT ![h] = "failed"]
    /\ scn' = -1
    /\ UNCHANGED <<client, smNext, isReady, qrRetries, restarting, sleeping, stopping,
                   timers, qrPending, stopped>>
    /\ OnlySM

\* --------------------------------------------- SessionManager.sendMessage
NoSend == [pc |-> "idle", ret |-> "none", h |-> 0]
InitSend == sendOp = NoSend

\* A slip in the guard of sendMessage: it looks at this.client only.
NotReadyNoClient == client = 0

\* !this.isReady, line 271 (and src/server.js lines 150 and 270, in the
\* same synchronous stretch).
NotReady == ~isReady

\* sendMessage(to, message) up to its await, lines 269-277: not ready, it
\* throws into its own catch block and returns the failure (lines 271-272
\* and 282-284); with this.client null the call of line 277 throws the
\* same way; else it awaits this.client.sendMessage.
SendMessage ==
    /\ sendOp.pc = "idle"
    /\ sendOp' = IF NotReady THEN [pc |-> "idle", ret |-> "notReady", h |-> 0]
                 ELSE IF client = 0 THEN [pc |-> "idle", ret |-> "error", h |-> 0]
                 ELSE [pc |-> "awaiting", ret |-> "none", h |-> client]
    /\ OnlySend

\* this.client.sendMessage settled: lines 279-280, or the catch block of
\* lines 282-284.
SendMessageSettled(ok) ==
    /\ sendOp.pc = "awaiting"
    /\ sendOp' = [sendOp EXCEPT !.pc = "idle", !.ret = IF ok THEN "sent" ELSE "error"]
    /\ OnlySend

NextSend ==
    \/ StartBot
    \/ \E h \in Handles : SMAuthenticated(h)
    \/ \E h \in Handles : SMReady(h)
    \/ \E h \in Handles : SMDisconnected(h)
    \/ StopBot
    \/ \E h \in Handles : StopDestroyResolved(h)
    \/ SendMessage
    \/ \E ok \in BOOLEAN : SendMessageSettled(ok)

NextSM ==
    \/ StartBot
    \/ ApiRestart
    \/ \E h \in Handles : RestartDestroyResolved(h)
    \/ \E h \in Handles, closed \in BOOLEAN : RestartDestroyRejected(h, closed)
    \/ RestartSleepDone
    \/ StopBot
    \/ \E h \in Handles : StopDestroyResolved(h)
    \/ \E h \in Handles, closed \in BOOLEAN : StopDestroyRejected(h, closed)
    \/ \E h \in Handles : SMDisconnected(h)
    \/ ReconnectTimer
    \/ \E h \in Handles : SMQr(h)
    \/ \E ok \in BOOLEAN : SMQrEncoded(ok)
    \/ \E h \in Handles : SMAuthenticated(h)
    \/ \E h \in Handles : SMReady(h)
    \/ \E h \in Handles : SMAuthFailure(h)

\* The SessionManager with its status timers followed.
NextStats ==
    \/ StartBot
    \/ ApiRestart
    \/ \E h \in Handles : RestartDestroyResolved(h)
    \/ \E h \in Handles, closed \in BOOLEAN : RestartDestroyRejected(h, closed)
    \/ RestartSleepDone
    \/ StopBot
    \/ \E h \in Handles : StopDestroyResolved(h)
    \/ \E h \in Handles, closed \in BOOLEAN : StopDestroyRejected(h, closed)
    \/ \E h \in Handles : SMDisconnected(h)
    \/ ReconnectTimer
    \/ \E h \in Handles : SMQr(h)
    \/ \E ok \in BOOLEAN : SMQrEncoded(ok)
    \/ \E h \in Handles : SMAuthenticated(h)
    \/ \E h \in Handles : SMReadyStartsStats(h)
    \/ \E h \in Handles : SMAuthFailure(h)

\* ------------------------------------------------- AIReply.checkRateLimit
\* JavaScript values as far as line 675 needs them.
JsNumber(n) == [t |-> "number", n |-> n, b |-> FALSE]
JsNaN == [t |-> "NaN", n |-> 0, b |-> FALSE]
JsBoolean(b) == [t |-> "boolean", n |-> 0, b |-> b]

\* parseInt of an environment variable: NaN when it is not set.
parseInt(s) == IF s = <<>> THEN JsNaN ELSE JsNumber(s[1])
\* n >= x for a number n: false when x is NaN.
JsGe(n, x) == JsBoolean(x.t = "number" /\ n >= x.n)
\* ToBoolean
Truthy(x) == IF x.t = "boolean" THEN x.b ELSE x.t = "number" /\ x.n # 0
\* x || y
JsOr(x, y) == IF Truthy(x) THEN x ELSE y

\* The default of line 675, the 2 after ||.
defaultRateLimit == 2
\* The length of the window, line 671: 60000 ms.
windowMs == 60000
\* The age at which cleanupOldConversations drops a limit, line 727.
staleLimitMs == 300000
\* The clock moves in steps of half a window.
TickMs == windowMs \div 2

\* The condition of line 675 as JavaScript parses it:
\* (userLimits.count >= parseInt(process.env.MESSAGE_RATE_LIMIT)) || 2
LimitExceeded(count) ==
    Truthy(JsOr(JsGe(count, parseInt(envLimit)), JsNumber(defaultRateLimit)))

\* this.rateLimits.get(fromNumber) || { count: 0, resetTime: now }, line 666
UserLimits(c) ==
    IF rateLimits[c] = <<>> THEN [count |-> 0, resetTime |-> now] ELSE rateLimits[c][1]

\* Reset counter every minute, lines 669-672.
Windowed(u) ==
    IF now > u.resetTime THEN [count |-> 0, resetTime |-> now + windowMs] ELSE u

\* checkRateLimit(c), lines 664-683: what it returns and what it leaves in
\* the map.  The object it got from the map is changed in place by the reset.
checkRateLimit(c) ==
    LET u == Windowed(UserLimits(c)) IN
    IF LimitExceeded(u.count)
    THEN [ret |-> FALSE,
          limits |-> IF rateLimits[c] = <<>> THEN rateLimits
                     ELSE [rateLimits EXCEPT ![c] = <<u>>]]
    ELSE [ret |-> TRUE,
          limits |-> [rateLimits EXCEPT ![c] = <<[u EXCEPT !.count = @ + 1]>>]]

InitRL ==
    /\ now = TickMs
    /\ rateLimits = [c \in Contacts |-> <<>>]
    /\ refLimits = [c \in Contacts |-> <<>>]
    /\ rlOp = [op |-> "none", c |-> 0, ret |-> FALSE, want |-> FALSE]

\* The fixed-window counter the rate limiter is specified to be, with the
\* quota of 2: kept next to the map to compare the answers.
RefLimits(c) ==
    IF refLimits[c] = <<>> THEN [count |-> 0, resetTime |-> now] ELSE refLimits[c][1]
RefAllows(c) == Windowed(RefLimits(c)).count < defaultRateLimit
RefAfter(c) ==
    LET u == Windowed(RefLimits(c)) IN
    [refLimits EXCEPT ![c] = <<IF RefAllows(c) THEN [u EXCEPT !.count = @ + 1] ELSE u>>]

\* A reply attempt for contact c: generateReply calls checkRateLimit, line 430.
CheckRateLimit(c) ==
    /\ rateLimits' = checkRateLimit(c).limits
    /\ rlOp' = [op |-> "check", c |-> c, ret |-> checkRateLimit(c).ret,
                want |-> RefAllows(c)]
    /\ refLimits' = RefAfter(c)
    /\ UNCHANGED <<now, envLimit>>
    /\ OnlyRL

\* Time passes.
AdvanceClock ==
    /\ now < MaxTicks * TickMs
    /\ now' = now + TickMs
    /\ rlOp' = [rlOp EXCEPT !.op = "none"]
    /\ UNCHANGED <<envLimit, rateLimits, refLimits>>
    /\ OnlyRL

\* The hourly cleanupOldConversations, its part on rate limits: lines 725-730.
CleanupRateLimits ==
    /\ rateLimits' = [c \in Contacts |->
            IF rateLimits[c] # <<>> /\ now > rateLimits[c][1].resetTime + staleLimitMs
            THEN <<>> ELSE rateLimits[c]]
    /\ rlOp' = [op |-> "cleanup", c |-> 0, ret |-> FALSE, want |-> FALSE]
    /\ UNCHANGED <<now, envLimit, refLimits>>
    /\ OnlyRL

NextRL ==
    \/ \E c \in Contacts : CheckRateLimit(c)
    \/ AdvanceClock
    \/ CleanupRateLimits

\* ---------------------------------------------------- conversation history
\* "Keep only last 10 messages": the 10 of ai-reply.js line 657 and the 10
\* of geminiAI.js line 132.
maxConversationTurns == 10
maxChatMessages == 10

\* A variant of the trimming: pop() for shift(), dropping the newest entry.
popNewest(a) == SubSeq(a, 1, Len(a) - 1)

\* Array.prototype.shift: the array without its first element.
shift(a) == Tail(a)

\* Array.prototype.slice(start): a negative start counts from the end.
slice(a, start) ==
    LET from == IF start < 0
                THEN (IF Len(a) + start < 0 THEN 0 ELSE Len(a) + start)
                ELSE (IF start > Len(a) THEN Len(a) ELSE start)
    IN SubSeq(a, from + 1, Len(a))

\* The trimming of updateConversationHistory, lines 657-659.
trimConversation(a) == IF Len(a) > maxConversationTurns THEN shift(a) ELSE a

\* AIReply.updateConversationHistory, lines 646-662, on the stored history h
\* with the new turn e.
updateConversationHistory(h, e) == trimConversation(Append(h, e))

\* GeminiAI.updateChatHistory, lines 114-137, on the stored history h with
\* the user message u and the bot reply b.
updateChatHistory(h, u, b) ==
    LET pushed == Append(Append(h, u), b) IN
    IF Len(pushed) > maxChatMessages THEN slice(pushed, 0 - maxChatMessages) ELSE pushed

\* No clearChatHistory call was the last call.
NoHistOp == [op |-> "none", c |-> 0, had |-> FALSE]

\* A slip in clearChatHistory: Map.prototype.clear for delete.
clear(map, key) == [k \in DOMAIN map |-> <<>>]

\* Map.prototype.delete on a map whose missing keys read as <<>>.
delete(map, key) == [map EXCEPT ![key] = <<>>]

InitHist ==
    /\ histOp = NoHistOp
    /\ conversationHistory = [c \in Contacts |-> <<>>]
    /\ chatHistory = [c \in Contacts |-> <<>>]
    /\ convLog = [c \in Contacts |-> <<>>]
    /\ chatLog = [c \in Contacts |-> <<>>]

\* The n-th turn of a contact, and the two messages of its n-th exchange.
Turn(n) == [userMessage |-> n, aiReply |-> n]
UserMessage(n) == [type |-> "User", message |-> n]
BotReply(n) == [type |-> "Bot", message |-> n]

\* AIReply.generateReply stores a turn for contact c, line 450.
UpdateConversationHistory(c) ==
    LET e == Turn(Len(convLog[c]) + 1) IN
    /\ Len(convLog[c]) < MaxTurns
    /\ conversationHistory' =
          [conversationHistory EXCEPT ![c] = updateConversationHistory(@, e)]
    /\ convLog' = [convLog EXCEPT ![c] = Append(@, e)]
    /\ histOp' = NoHistOp
    /\ UNCHANGED <<chatHistory, chatLog>>
    /\ OnlyHist

\* cleanupOldConversations finds the history of contact c older than 24 h
\* and deletes it, lines 705-719.
CleanupOldConversations(c) ==
    /\ conversationHistory[c] # <<>>
    /\ conversationHistory' = [conversationHistory EXCEPT ![c] = <<>>]
    /\ convLog' = [convLog EXCEPT ![c] = <<>>]
    /\ histOp' = NoHistOp
    /\ UNCHANGED <<chatHistory, chatLog>>
    /\ OnlyHist

\* GeminiAI.generateReply stores an exchange with contact c, line 44, and
\* the time of the reply, line 47.
UpdateChatHistory(c) ==
    LET n == (Len(chatLog[c]) \div 2) + 1 IN
    /\ Len(chatLog[c]) < MaxTurns
    /\ chatHistory' =
          [chatHistory EXCEPT ![c] = updateChatHistory(@, UserMessage(n), BotReply(n))]
    /\ chatLog' = [chatLog EXCEPT ![c] = Append(Append(@, UserMessage(n)), BotReply(n))]
    /\ lastReplyTime' = [lastReplyTime EXCEPT ![c] = <<now>>]
    /\ histOp' = NoHistOp
    /\ UNCHANGED <<conversationHistory, convLog>>
    /\ OnlyChat

\* GeminiAI.clearChatHistory, lines 164-167 (POST /api/clear-history), for
\* a contact with or without a history; the cleanup of lines 185-198
\* deletes an old history the same way.
ClearChatHistory(c) ==
    /\ chatHistory' = delete(chatHistory, c)
    /\ chatLog' = [k \in Contacts |-> IF chatHistory'[k] = <<>> THEN <<>> ELSE chatLog[k]]
    /\ histOp' = [op |-> "clear", c |-> c, had |-> chatHistory[c] # <<>>]
    /\ UNCHANGED <<conversationHistory, convLog>>
    /\ OnlyHist

NextHist ==
    \/ \E c \in Contacts : UpdateConversationHistory(c)
    \/ \E c \in Contacts : CleanupOldConversations(c)
    \/ \E c \in Contacts : UpdateChatHistory(c)
    \/ \E c \in Contacts : ClearChatHistory(c)

\* ----------------- AIReply.cleanupOldConversations and GeminiAI.cleanup
\* 24 * 60 * 60 * 1000: maxAge of ai-reply.js line 701, oneDay of
\* geminiAI.js line 186.
maxAge == 24 * 60 * 60 * 1000
oneDay == 24 * 60 * 60 * 1000
\* The clock of the sweeps moves in steps of 13 hours.
SweepTickMs == 13 * 60 * 60 * 1000

InitSweep ==
    sweep = [now |-> 0, op |-> "none",
             conversationHistory |-> [c \in Contacts |-> <<>>],
             rateLimits |-> [c \in Contacts |-> <<>>],
             chatHistory |-> [c \in Contacts |-> <<>>],
             lastReplyTime |-> [c \in Contacts |-> <<>>]]

\* history[history.length - 1]
Last(history) == history[Len(history)]

\* AIReply.cleanupOldConversations, lines 699-731, at time t: what it leaves
\* of the histories and of the rate limits.
cleanupOldConversations(t, histories) ==
    [c \in Contacts |->
        IF histories[c] = <<>> THEN <<>>
        ELSE IF t - Last(histories[c]) > maxAge THEN <<>>
        ELSE histories[c]]
cleanupRateLimits(t, limits) ==
    [c \in Contacts |->
        IF limits[c] # <<>> /\ t > limits[c][1].resetTime + staleLimitMs
        THEN <<>> ELSE limits[c]]

\* GeminiAI.cleanup, lines 185-198, at time t: what it leaves of the
\* histories.  It touches no other field.
cleanup(t, histories) ==
    [c \in Contacts |->
        IF histories[c] = <<>> THEN histories[c]
        ELSE IF t - Last(histories[c]) > oneDay THEN <<>>
        ELSE histories[c]]

\* Time passes.
SweepClock ==
    /\ sweep.now < MaxSweepTicks * SweepTickMs
    /\ sweep' = [sweep EXCEPT !.now = @ + SweepTickMs, !.op = "none"]
    /\ OnlySweep

\* AIReply.generateReply stores a turn of contact c, line 450.  The map of
\* rate limits never gets an entry: checkRateLimit allows no call.
SweepAIReplyStores(c) ==
    /\ Len(sweep.conversationHistory[c]) < MaxSweepTurns
    /\ sweep' = [sweep EXCEPT
            !.conversationHistory[c] = updateConversationHistory(@, sweep.now),
            !.op = "none"]
    /\ OnlySweep

\* GeminiAI.generateReply stores an exchange with contact c and the time
\* of the reply, lines 44-47.
SweepGeminiStores(c) ==
    /\ Len(sweep.chatHistory[c]) < 2 * MaxSweepTurns
    /\ sweep' = [sweep EXCEPT
            !.chatHistory[c] = updateChatHistory(@, sweep.now, sweep.now),
            !.lastReplyTime[c] = <<sweep.now>>,
            !.op = "none"]
    /\ OnlySweep

\* The timer of ai-reply.js lines 420-422 fires.
SweepAIReply ==
    /\ sweep' = [sweep EXCEPT
            !.conversationHistory = cleanupOldConversations(sweep.now, @),
            !.rateLimits = cleanupRateLimits(sweep.now, @),
            !.op = "cleanupOldConversations"]
    /\ OnlySweep

\* The timer of server.js lines 382-386 fires.
SweepGemini ==
    /\ sweep' = [sweep EXCEPT !.chatHistory = cleanup(sweep.now, @), !.op = "cleanup"]
    /\ OnlySweep

NextSweep ==
    \/ SweepClock
    \/ \E c \in Contacts : SweepAIReplyStores(c)
    \/ \E c \in Contacts : SweepGeminiStores(c)
    \/ SweepAIReply
    \/ SweepGemini

\* -------------------------------------- SessionManager.sendReplyWithTyping
\* Values of TYPING_DELAY_MIN and TYPING_DELAY_MAX: unset, or a number.
TypingEnv == {<<>>, <<0>>, <<500>>, <<1000>>, <<3000>>, <<5000>>}
\* Math.random() takes the values r / RandomSteps, r in 0 .. RandomSteps - 1.
RandomDraws == 0 .. (RandomSteps - 1)
\* The lengths of a reply: a reply is not the empty string, line 210.
LenStep == 25
ReplyLengths == {1} \cup {k * LenStep : k \in 1 .. MaxLenSteps}

MathMin(a, b) == IF a < b THEN a ELSE b

\* parseInt(process.env.TYPING_DELAY_MIN) || 1000, line 244
typingDelayMin(env) == JsOr(parseInt(env), JsNumber(1000)).n
\* parseInt(process.env.TYPING_DELAY_MAX) || 3000, line 245
typingDelayMax(env) == JsOr(parseInt(env), JsNumber(3000)).n
\* Line 246 with Math.random() = r / RandomSteps; the differences of the
\* values above are multiples of RandomSteps.
baseDelay(min, max, r) == min + (r * (max - min)) \div RandomSteps
\* Line 247: 30 ms per character.
msPerChar == 30
charDelay(len) == len * msPerChar

\* A slip in line 248: the sum without its cap.
totalDelayUncapped(base, char, max) == base + char

\* Line 248
totalDelay(base, char, max) == MathMin(base + char, max)

NoDelay == [op |-> "none", min |-> 0, max |-> 0, len |-> 0, base |-> 0, delay |-> 0]
InitDelay == delayOp = NoDelay

\* Lines 244-248 of sendReplyWithTyping for a reply of len characters.
TypingDelay(envMin, envMax, len, r) ==
    LET min == typingDelayMin(envMin)
        max == typingDelayMax(envMax)
        base == baseDelay(min, max, r) IN
    /\ delayOp' = [op |-> "delay", min |-> min, max |-> max, len |-> len, base |-> base,
                   delay |-> totalDelay(base, charDelay(len), max)]
    /\ OnlyDelay

NextDelay ==
    \E envMin \in TypingEnv, envMax \in TypingEnv, len \in ReplyLengths, r \in RandomDraws :
        TypingDelay(envMin, envMax, len, r)

\* ------------------------------- GeminiAI.generateReply, completion failed
\* A text is seen through what detectLanguage tests: it is a sequence of
\* pieces, each a Latin word that is none of the words of hinglishPatterns,
\* one of those words ("marker": kya, hai, yaar, ok, ...), a run of
\* Devanagari characters, or anything else (digit, emoji, another script).
Scripts == {"latin", "marker", "devanagari", "other"}
Texts == UNION {[1..n -> Scripts] : n \in 1..MaxTextLen}

\* RegExp.prototype.test for a character class: a marker word is made of
\* Latin letters.
test(script, text) ==
    \E i \in DOMAIN text : text[i] = script \/ (script = "latin" /\ text[i] = "marker")

\* hinglishPatterns.some(pattern => pattern.test(text)), lines 95-101.
testPatterns(text) == \E i \in DOMAIN text : text[i] = "marker"

\* GeminiAI.detectLanguage, geminiAI.js lines 86-106.
detectLanguage(text) ==
    LET hindiWords == test("devanagari", text)
        englishWords == test("latin", text) IN
    IF hindiWords /\ englishWords THEN "hinglish"
    ELSE IF hindiWords THEN "hindi"
    ELSE IF englishWords THEN "english"
    ELSE IF testPatterns(text) THEN "hinglish"
    ELSE "hinglish"

\* The five texts of getFallbackReply, geminiAI.js lines 152-158: all of
\* them Hindi in Latin letters mixed with English words.
fallbackReplies == [i \in 1..5 |-> [id |-> i, language |-> "hinglish"]]

\* Math.floor(Math.random() * fallbackReplies.length), from 1.
RandomIndexes == DOMAIN fallbackReplies

\* GeminiAI.getFallbackReply, geminiAI.js lines 151-161, when Math.random
\* draws index r: the message is not looked at.
getFallbackReply(originalMessage, r) == fallbackReplies[r]

\* How the completion fails: generateContent rejects on a timeout or on a
\* status outside 2xx, response.text() throws on a payload without text.
Failures == {"timeout", "status", "malformed"}

NoFallback ==
    [ret |-> "none", text |-> <<>>, failure |-> "none", detected |-> "none",
     id |-> 0, language |-> "none"]

InitFallback == fbOp = NoFallback

\* generateReply for a contact canReply lets pass, the completion failing:
\* lines 22-39, then the catch block of lines 52-55.
GenerateReplyFails(text, failure, r) ==
    /\ fbOp' = [ret |-> "fallback", text |-> text, failure |-> failure,
                detected |-> detectLanguage(text),
                id |-> getFallbackReply(text, r).id,
                language |-> getFallbackReply(text, r).language]
    /\ OnlyFallback

NextFallback ==
    \E text \in Texts, failure \in Failures, r \in RandomIndexes :
        GenerateReplyFails(text, failure, r)

\* ------------------------------------ SessionManager.handleIncomingMessage
\* The two events the SessionManager subscribes handleIncomingMessage to,
\* lines 130-137.
Events == {"message_create", "message"}
Bodies == {" ", "hello"}
\* String.prototype.trim on the bodies above.
trim(b) == IF b = " " THEN "" ELSE b

\* parseInt(process.env.MAX_MESSAGES_PER_MINUTE) || 2, geminiAI.js line 142,
\* with the variable unset.
maxMessagesPerMinute == 2
\* 60 * 1000, geminiAI.js line 143
oneMinute == 60 * 1000
\* 5 * 60 * 1000, line 180
fiveMinutes == 5 * 60 * 1000

\* GeminiAI.canReply, geminiAI.js lines 140-148.
canReply(c) ==
    \/ lastReplyTime[c] = <<>>
    \/ (now - lastReplyTime[c][1]) > (oneMinute \div maxMessagesPerMinute)

\* A message that has not arrived.
NoMessage ==
    [st |-> "none", from |-> 0, body |-> "", pc |-> [e \in Events |-> "off"],
     text |-> [e \in Events |-> "none"], threw |-> [e \in Events |-> FALSE],
     apol |-> [e \in Events |-> 0],
     elig |-> FALSE, ok |-> FALSE, delivered |-> 0, turns |-> 0, sent |-> 0,
     drop |-> FALSE]

\* A message whose handlers have all returned, once the next one arrives:
\* its history is not kept.
Archived == [NoMessage EXCEPT !.st = "archived"]

\* A slip after a denied reply: the handler apologises.
AfterDeniedApologise == "fallback"

\* generateReply returned null: `if (aiReply)` of line 210 skips the send and
\* the handler returns.
AfterDenied == "done"

\* A slip in the inner catch block: the apology is sent again.
AfterApologyRetry(ok) == IF ok THEN "done" ELSE "fallback"

\* The apology of line 228 settled: sent, or its error caught and logged at
\* lines 229-231; either way the handler returns.
AfterApology(ok) == "done"

\* The handler for event e of message m goes on to next, after an awaited
\* call of its try block threw (err) or not; reaching the catch block of
\* lines 223-228 it calls message.reply with the apology.
Goto(m, e, next, err) ==
    [msgs EXCEPT ![m].pc[e] = next,
                 ![m].threw[e] = @ \/ err,
                 ![m].apol[e] = IF next = "fallback" THEN @ + 1 ELSE @]

InitPipe ==
    /\ lastReplyTime = [c \in Contacts |-> <<>>]
    /\ messageCount = 0
    /\ msgs = [m \in Messages |-> NoMessage]
    /\ replyTimes = [c \in Contacts |-> <<>>]

\* Every handler raised for message m has run to its end.
Handled(m) == msgs[m].st # "none" /\ \A e \in Events : msgs[m].pc[e] \in {"off", "done"}
OpenMessages == {m \in Messages : msgs[m].st # "none" /\ ~Handled(m)}

\* replyTimes with a reply to contact c now; what is older than 60 s is
\* forgotten.
Replied(c) ==
    [replyTimes EXCEPT ![c] = Append(SelectSeq(@, LAMBDA t : now - t < windowMs), now)]

\* The replies delivered to contact c within the last 60 s.
RecentReplies(c) ==
    Cardinality({i \in 1..Len(replyTimes[c]) : now - replyTimes[c][i] < windowMs})

\* The checks of lines 169-185, made before the first await.
PassesFilters(fromMe, group, timestamp) ==
    /\ isReady /\ ~fromMe
    /\ ~group
    /\ ~(timestamp < now - fiveMinutes)

\* A message from contact c arrives, just sent or older than five minutes,
\* and the Client raises the events evs for it: each subscribed handler runs
\* handleIncomingMessage up to its await of message.getContact(), line 188.
\* The contacts are numbered in the order they first write.
MessageArrives(m, c, fromMe, group, old, body, evs) ==
    LET timestamp == IF old THEN now - fiveMinutes - TickMs ELSE now IN
    /\ msgs[m].st = "none"
    /\ c <= m
    /\ IF m = 1 THEN TRUE ELSE msgs[m - 1].st # "none"
    /\ Cardinality(OpenMessages) < MaxOpen
    /\ evs # {}
    /\ fromMe => evs = {"message_create"}
    /\ msgs' = [[k \in Messages |-> IF Handled(k) THEN Archived ELSE msgs[k]] EXCEPT ![m] =
          [st |-> "arrived", from |-> c, body |-> body,
           pc |-> [e \in Events |->
                     IF e \notin evs THEN "off"
                     ELSE IF PassesFilters(fromMe, group, timestamp) THEN "contact"
                     ELSE "done"],
           text |-> [e \in Events |-> "none"], threw |-> [e \in Events |-> FALSE],
           apol |-> [e \in Events |-> 0],
           elig |-> /\ PassesFilters(fromMe, group, timestamp)
                    /\ trim(body) # ""
                    /\ RecentReplies(c) < maxMessagesPerMinute,
           ok |-> TRUE, delivered |-> 0, turns |-> 0, sent |-> 0,
           drop |-> ~PassesFilters(fromMe, group, timestamp) \/ trim(body) = ""]]
    /\ UNCHANGED <<isReady, now, chatHistory, chatLog, lastReplyTime, messageCount,
                   replyTimes>>
    /\ OnlyPipe

\* message.getContact() settled: lines 189-204 and GeminiAI.generateReply up
\* to its await of generateContent (geminiAI.js lines 22-39), or the catch
\* block of lines 223-228 up to its await of message.reply.
ContactResolved(m, e, ok) ==
    /\ msgs[m].pc[e] = "contact"
    /\ msgs' = [Goto(m, e, IF ~ok THEN "fallback"
                            ELSE IF trim(msgs[m].body) = "" THEN "done"
                            ELSE IF canReply(msgs[m].from) THEN "generate"
                            ELSE AfterDenied, ~ok)
                  EXCEPT ![m].ok = @ /\ ok,
                         ![m].text[e] = IF ok /\ trim(msgs[m].body) # ""
                                             /\ ~canReply(msgs[m].from)
                                        THEN "null" ELSE @]
    /\ UNCHANGED <<isReady, now, chatHistory, chatLog, lastReplyTime, messageCount,
                   replyTimes>>
    /\ OnlyPipe

\* generateContent settled: geminiAI.js lines 40-50, or the catch block of
\* lines 52-55, which returns a fallback text; then sendReplyWithTyping up to
\* its awaits, lines 210-211 and 236-257.
GenerateSettled(m, e, ok) ==
    LET c == msgs[m].from
        n == (Len(chatLog[c]) \div 2) + 1 IN
    /\ msgs[m].pc[e] = "generate"
    /\ Len(chatLog[c]) < MaxTurns
    /\ IF ok
       THEN /\ chatHistory' =
                 [chatHistory EXCEPT ![c] = updateChatHistory(@, UserMessage(n), BotReply(n))]
            /\ chatLog' = [chatLog EXCEPT ![c] = Append(Append(@, UserMessage(n)), BotReply(n))]
            /\ lastReplyTime' = [lastReplyTime EXCEPT ![c] = <<now>>]
       ELSE UNCHANGED <<chatHistory, chatLog, lastReplyTime>>
    /\ msgs' = [Goto(m, e, "send", FALSE)
                  EXCEPT ![m].ok = @ /\ ok,
                         ![m].turns = IF ok THEN @ + 1 ELSE @,
                         ![m].text[e] = IF ok THEN "ai" ELSE "fallbackSet"]
    /\ UNCHANGED <<isReady, now, messageCount, replyTimes>>
    /\ OnlyPipe

\* A slip in the counter: incremented before the reply is awaited.
CountAfterSendAlways(ok) == messageCount + 1

\* this.messageCount++ of line 212 follows the await of sendReplyWithTyping
\* (line 211): it is not reached when the delivery threw.
CountAfterSend(ok) == IF ok THEN messageCount + 1 ELSE messageCount

\* The awaits of sendReplyWithTyping settled, message.reply the last of
\* them: line 212, or the catch block of lines 223-228.
SendSettled(m, e, ok) ==
    /\ msgs[m].pc[e] = "send"
    /\ messageCount' = CountAfterSend(ok)
    /\ replyTimes' = IF ok THEN Replied(msgs[m].from) ELSE replyTimes
    /\ msgs' = [Goto(m, e, IF ok THEN "done" ELSE "fallback", ~ok)
                  EXCEPT ![m].ok = @ /\ ok,
                         ![m].delivered = IF ok THEN @ + 1 ELSE @,
                         ![m].sent = IF ok THEN @ + 1 ELSE @]
    /\ UNCHANGED <<isReady, now, chatHistory, chatLog, lastReplyTime>>
    /\ OnlyPipe

\* The fallback message.reply of line 228 settled.
FallbackSettled(m, e, ok) ==
    /\ msgs[m].pc[e] = "fallback"
    /\ replyTimes' = IF ok THEN Replied(msgs[m].from) ELSE replyTimes
    /\ msgs' = [Goto(m, e, AfterApology(ok), FALSE)
                  EXCEPT ![m].delivered = IF ok THEN @ + 1 ELSE @]
    /\ UNCHANGED <<isReady, now, chatHistory, chatLog, lastReplyTime, messageCount>>
    /\ OnlyPipe

\* The 'ready' handler sets isReady, line 113.
SessionReady ==
    /\ ~isReady
    /\ isReady' = TRUE
    /\ UNCHANGED <<now, chatHistory, chatLog, lastReplyTime, messageCount, msgs, replyTimes>>
    /\ OnlyPipe

\* The 'disconnected' handler clears isReady, line 142.
SessionLost ==
    /\ isReady
    /\ isReady' = FALSE
    /\ UNCHANGED <<now, chatHistory, chatLog, lastReplyTime, messageCount, msgs, replyTimes>>
    /\ OnlyPipe

NextPipe ==
    \/ \E m \in Messages, c \in Contacts, fromMe \in BOOLEAN, group \in BOOLEAN,
          old \in BOOLEAN, body \in Bodies, evs \in SUBSET Events :
          MessageArrives(m, c, fromMe, group, old, body, evs)
    \/ \E m \in Messages, e \in Events, ok \in BOOLEAN : ContactResolved(m, e, ok)
    \/ \E m \in Messages, e \in Events, ok \in BOOLEAN : GenerateSettled(m, e, ok)
    \/ \E m \in Messages, e \in Events, ok \in BOOLEAN : SendSettled(m, e, ok)
    \/ \E m \in Messages, e \in Events, ok \in BOOLEAN : FallbackSettled(m, e, ok)
    \/ SessionReady
    \/ SessionLost
    \/ AdvanceClock

\* ------------------------- GeminiAI.generateReply, one call at a time
NoReply == [pc |-> "idle", c |-> 0, ret |-> "none", results |-> [c \in Contacts |-> <<>>]]

InitReply == genOp = NoReply

\* generateReply for a message of contact c up to its await of
\* generateContent, geminiAI.js lines 21-40: null when canReply refuses.
GenerateReply(c) ==
    /\ genOp.pc = "idle"
    /\ Len(genOp.results[c]) < MaxResults
    /\ genOp' = IF canReply(c)
                THEN [genOp EXCEPT !.pc = "generating", !.c = c, !.ret = "none"]
                ELSE [genOp EXCEPT !.c = c, !.ret = "null"]
    /\ UNCHANGED <<chatHistory, chatLog, lastReplyTime>>
    /\ OnlyReply

\* generateContent settled: lines 40-50 return the completion, the catch
\* block of lines 52-55 returns the fallback text and writes nothing.
GenerateContentSettled(ok) ==
    LET c == genOp.c
        n == (Len(chatLog[c]) \div 2) + 1 IN
    /\ genOp.pc = "generating"
    /\ IF ok
       THEN /\ chatHistory' =
                 [chatHistory EXCEPT ![c] = updateChatHistory(@, UserMessage(n), BotReply(n))]
            /\ chatLog' = [chatLog EXCEPT ![c] = Append(Append(@, UserMessage(n)), BotReply(n))]
            /\ lastReplyTime' = [lastReplyTime EXCEPT ![c] = <<now>>]
       ELSE UNCHANGED <<chatHistory, chatLog, lastReplyTime>>
    /\ genOp' = [genOp EXCEPT !.pc = "idle",
                              !.ret = IF ok THEN "ai" ELSE "fallback",
                              !.results[c] = Append(@, now)]
    /\ OnlyReply

NextReply ==
    \/ \E c \in Contacts : GenerateReply(c)
    \/ \E ok \in BOOLEAN : GenerateContentSettled(ok)
    \/ AdvanceClock

\* ----------------- SessionManager.handleIncomingMessage, call by call
\* The calls of handleIncomingMessage for the 'message' events of text
\* messages that contact 1 has just sent in its own chat: such a message
\* passes the checks of lines 172-185 and 195.  A call is cut at its awaits
\* as above; the Client of its message is kept with it.
Flights == 1..MaxFlights
FlightContact == 1
NoFlight ==
    [pc |-> "idle", h |-> 0, text |-> "none", threw |-> FALSE, delivered |-> 0,
     at |-> -1, turn |-> 0]

InitFlight ==
    /\ flight = [f \in Flights |-> NoFlight]
    /\ sentOrder = <<>>

\* A slip in the reply: sent with this.client.sendMessage, as sendMessage of
\* lines 268-284 does, in place of message.reply.
ReplyClientCurrent(f) == client

\* message.getChat(), chat.sendStateTyping(), chat.clearState() and
\* message.reply() of lines 228, 238-257 work on the Client that raised the
\* message.
ReplyClient(f) == flight[f].h

\* A call on a Client whose browser is closed rejects.
CanDeliver(f) == ReplyClient(f) # 0 /\ SMLive(ReplyClient(f))

\* The ready Client h raises 'message' for the next message: lines 166-188.
\* Not ready, the handler returns at line 169.
FlightArrives(f, h) ==
    /\ flight[f].pc = "idle"
    /\ \A g \in Flights : g < f => flight[g].pc # "idle"
    /\ smSt[h] = "ready"
    /\ flight' = [flight EXCEPT ![f] =
                    [NoFlight EXCEPT !.pc = IF isReady THEN "contact" ELSE "done", !.h = h]]
    /\ UNCHANGED <<sentOrder, chatHistory, chatLog, lastReplyTime, messageCount>>
    /\ OnlyFlight

\* message.getContact() settled: lines 189-204 and GeminiAI.generateReply up
\* to its await (geminiAI.js lines 22-39), or the catch block of lines
\* 223-228 up to its await of message.reply.
FlightContactSettled(f, ok) ==
    /\ flight[f].pc = "contact"
    /\ ok => CanDeliver(f)
    /\ flight' = [flight EXCEPT
            ![f].pc = IF ~ok THEN "fallback"
                      ELSE IF canReply(FlightContact) THEN "generate" ELSE "done",
            ![f].text = IF ok /\ ~canReply(FlightContact) THEN "null" ELSE @,
            ![f].at = IF ok /\ canReply(FlightContact) THEN now ELSE @,
            ![f].threw = ~ok]
    /\ UNCHANGED <<sentOrder, chatHistory, chatLog, lastReplyTime, messageCount>>
    /\ OnlyFlight

\* generateContent settled: geminiAI.js lines 40-50 or 52-55, then
\* sendReplyWithTyping up to its awaits, lines 210-211 and 236-257.
FlightGenerateSettled(f, ok) ==
    LET c == FlightContact
        n == (Len(chatLog[c]) \div 2) + 1 IN
    /\ flight[f].pc = "generate"
    /\ IF ok
       THEN /\ chatHistory' =
                 [chatHistory EXCEPT ![c] = updateChatHistory(@, UserMessage(n), BotReply(n))]
            /\ chatLog' = [chatLog EXCEPT ![c] = Append(Append(@, UserMessage(n)), BotReply(n))]
            /\ lastReplyTime' = [lastReplyTime EXCEPT ![c] = <<now>>]
       ELSE UNCHANGED <<chatHistory, chatLog, lastReplyTime>>
    /\ flight' = [flight EXCEPT ![f].pc = "send",
                                ![f].text = IF ok THEN "ai" ELSE "fallbackSet",
                                ![f].turn = IF ok THEN n ELSE @]
    /\ UNCHANGED <<sentOrder, messageCount>>
    /\ OnlyFlight

\* The awaits of sendReplyWithTyping settled, the typing delay among them
\* and message.reply the last: line 212, or the catch block of lines
\* 223-228.
FlightSendSettled(f, ok) ==
    /\ flight[f].pc = "send"
    /\ ok => CanDeliver(f)
    /\ messageCount' = IF ok THEN messageCount + 1 ELSE messageCount
    /\ sentOrder' = IF ok THEN Append(sentOrder, f) ELSE sentOrder
    /\ flight' = [flight EXCEPT ![f].pc = IF ok THEN "done" ELSE "fallback",
                                ![f].threw = ~ok,
                                ![f].delivered = IF ok THEN @ + 1 ELSE @]
    /\ UNCHANGED <<chatHistory, chatLog, lastReplyTime>>
    /\ OnlyFlight

\* The apology of line 228 settled.
FlightFallbackSettled(f, ok) ==
    /\ flight[f].pc = "fallback"
    /\ ok => CanDeliver(f)
    /\ flight' = [flight EXCEPT ![f].pc = "done",
                                ![f].delivered = IF ok THEN @ + 1 ELSE @]
    /\ UNCHANGED <<sentOrder, chatHistory, chatLog, lastReplyTime, messageCount>>
    /\ OnlyFlight

\* One call against the start, the stop and the restart of the session.
NextTeardown ==
    \/ StartBot
    \/ \E h \in Handles : SMAuthenticated(h)
    \/ \E h \in Handles : SMReady(h)
    \/ StopBot
    \/ \E h \in Handles : StopDestroyResolved(h)
    \/ \E h \in Handles, closed \in BOOLEAN : StopDestroyRejected(h, closed)
    \/ ApiRestart
    \/ \E h \in Handles : RestartDestroyResolved(h)
    \/ \E h \in Handles, closed \in BOOLEAN : RestartDestroyRejected(h, closed)
    \/ RestartSleepDone
    \/ \E h \in Handles : FlightArrives(1, h)
    \/ \E ok \in BOOLEAN : FlightContactSettled(1, ok)
    \/ \E ok \in BOOLEAN : FlightGenerateSettled(1, ok)
    \/ \E ok \in BOOLEAN : FlightSendSettled(1, ok)
    \/ \E ok \in BOOLEAN : FlightFallbackSettled(1, ok)

\* Several calls against a session that starts and stays up.
NextOverlap ==
    \/ AdvanceClock
    \/ StartBot
    \/ \E h \in Handles : SMAuthenticated(h)
    \/ \E h \in Handles : SMReady(h)
    \/ \E f \in Flights, h \in Handles : FlightArrives(f, h)
    \/ \E f \in Flights, ok \in BOOLEAN : FlightContactSettled(f, ok)
    \/ \E f \in Flights, ok \in BOOLEAN : FlightGenerateSettled(f, ok)
    \/ \E f \in Flights, ok \in BOOLEAN : FlightSendSettled(f, ok)
    \/ \E f \in Flights, ok \in BOOLEAN : FlightFallbackSettled(f, ok)

\* ------------------------------- WhatsAppBotServer.handleIncomingMessage
\* The 30 seconds of line 385.
srvGapMs == 30000

IdleHandler ==
    [pc |-> "idle", from |-> 0, group |-> FALSE, engine |-> 0, sends |-> 0, apol |-> 0]

InitSrv ==
    /\ srvRate = [c \in Contacts |-> <<>>]
    /\ messagesSent = 0
    /\ srvMsg = IdleHandler
    /\ srvSeen = 0

\* rateLimit && (now - rateLimit.lastMessage) < 30000, line 385
SrvRateLimited(c) == srvRate[c] # <<>> /\ (now - srvRate[c][1]) < srvGapMs

\* The 'message_create' handler of lines 331-339 for a message of contact c,
\* sent in a group chat or not: it returns for a message of the account
\* itself, and else runs handleIncomingMessage up to its await of
\* message.getContact(), line 374.
SrvMessageCreate(c, fromMe, group) ==
    /\ srvMsg.pc \in {"idle", "done"}
    /\ srvSeen < MaxSrvMessages
    /\ srvSeen' = srvSeen + 1
    /\ srvMsg' = [IdleHandler EXCEPT !.pc = IF fromMe THEN "done" ELSE "contact",
                                     !.from = c, !.group = group]
    /\ UNCHANGED <<srvRate, messagesSent, rateLimits>>
    /\ OnlySrv

\* message.getContact() settled.  Resolved: the 30 s gate of lines 381-391,
\* then AIReply.generateReply up to its await of callGeminiAPI (part_000
\* lines 425-446); when checkRateLimit refuses, generateReply returns null
\* and `if (aiReply)` of line 396 ends the handler.  Rejected: the catch
\* block of lines 424-430 up to its await of message.reply.
SrvContactResolved(ok) ==
    LET c == srvMsg.from IN
    /\ srvMsg.pc = "contact"
    /\ IF ~ok
       THEN /\ srvMsg' = [srvMsg EXCEPT !.pc = "fallback", !.apol = @ + 1]
            /\ UNCHANGED <<srvRate, rateLimits>>
       ELSE IF SrvRateLimited(c)
       THEN /\ srvMsg' = [srvMsg EXCEPT !.pc = "done"]
            /\ UNCHANGED <<srvRate, rateLimits>>
       ELSE /\ srvRate' = [srvRate EXCEPT ![c] = <<now>>]
            /\ rateLimits' = checkRateLimit(c).limits
            /\ srvMsg' = [srvMsg EXCEPT !.engine = @ + 1,
                                        !.pc = IF checkRateLimit(c).ret THEN "api" ELSE "done"]
    /\ UNCHANGED <<messagesSent, srvSeen>>
    /\ OnlySrv

\* The fallback message.reply of line 430 settled; its error is caught and
\* logged at lines 431-433.
SrvFallbackSettled(ok) ==
    /\ srvMsg.pc = "fallback"
    /\ srvMsg' = [srvMsg EXCEPT !.pc = "done", !.sends = IF ok THEN @ + 1 ELSE @]
    /\ UNCHANGED <<srvRate, messagesSent, srvSeen, rateLimits>>
    /\ OnlySrv

\* checkRateLimit refuses every call (line 675 of part_000), so no handler
\* gets past line 394: the code of lines 396-421 and of part_000 lines
\* 435-456 does not run and has no action here.
NextSrv ==
    \/ \E c \in Contacts, fromMe \in BOOLEAN, group \in BOOLEAN : SrvMessageCreate(c, fromMe, group)
    \/ \E ok \in BOOLEAN : SrvContactResolved(ok)
    \/ \E ok \in BOOLEAN : SrvFallbackSettled(ok)
    \/ AdvanceClock

\* ------------------------------------------------------- specifications
\* The environment: MESSAGE_RATE_LIMIT is not set, or set to a number.
EnvUnset == envLimit = <<>>
EnvAny == envLimit \in {<<>>, <<2>>, <<3>>}

Init ==
    /\ InitWH /\ InitSM /\ InitRL /\ InitHist /\ InitPipe /\ InitSrv /\ InitAdmin /\ InitSend
    /\ InitDelay /\ InitCreate /\ InitFlight /\ InitFallback /\ InitSweep
    /\ InitReply
    /\ EnvUnset
InitAnyEnv ==
    /\ InitWH /\ InitSM /\ InitRL /\ InitHist /\ InitPipe /\ InitSrv /\ InitAdmin /\ InitSend
    /\ InitDelay /\ InitCreate /\ InitFlight /\ InitFallback /\ InitSweep
    /\ InitReply
    /\ EnvAny

SpecWH == Init /\ [][NextWH]_vars
SpecSM == Init /\ [][NextSM]_vars
SpecRL == InitAnyEnv /\ [][NextRL]_vars
SpecHist == Init /\ [][NextHist]_vars
SpecPipe == Init /\ [][NextPipe]_vars
SpecReply == Init /\ [][NextReply]_vars
SpecStats == Init /\ [][NextStats]_vars
SpecSrv == InitAnyEnv /\ [][NextSrv]_vars
SpecShutdown == Init /\ [][NextShutdown]_vars
SpecList == Init /\ [][NextList]_vars
SpecSend == Init /\ [][NextSend]_vars
SpecDelay == Init /\ [][NextDelay]_vars
SpecCreate == Init /\ [][NextCreate]_vars
SpecSweep == Init /\ [][NextSweep]_vars
SpecFallback == Init /\ [][NextFallback]_vars
SpecTeardown == Init /\ [][NextTeardown]_vars
SpecOverlap == Init /\ [][NextOverlap]_vars

\* ================================================================ claims
RegisteredAfter == {s \in SessionIds : clients'[s] # 0}
RegistryUnchanged == UNCHANGED <<clients, waSid, waSt, nextH>>
\* The step is a run of createClient(sid), called directly or at the end
\* of restartSession: only these steps leave such a record in whOp.
CreateClientCalled(sid) ==
    whOp'.op \in {"createClient", "restartSession"} /\ whOp'.sid = sid
CreateClientDirect(sid) == whOp'.op = "createClient" /\ whOp'.sid = sid

\* C2: after every step of the registry it holds at most maxSessions
\* sessions, and a createClient for an id that is not registered, made
\* while maxSessions sessions are registered, throws the capacity error
\* and changes neither the registry nor the set of constructed clients.
C2_CapacityRespected ==
    [][/\ Cardinality(RegisteredAfter) <= maxSessions
       /\ \A sid \in SessionIds :
            /\ CreateClientCalled(sid)
            /\ clients[sid] = 0
            /\ Cardinality({s \in SessionIds : clients[s] # 0}) = maxSessions
            => whOp'.ret = "capacity" /\ RegistryUnchanged]_vars

C2_Witness ==
    /\ whOp.op = "createClient"
    /\ whOp.ret = "capacity"
    /\ clients[whOp.sid] = 0
    /\ Cardinality({s \in SessionIds : clients[s] # 0}) = maxSessions

\* C3: createClient for an id that is registered returns the registered
\* client, constructs no client and leaves the registry as it was, whether
\* or not the registry is full.
C3_CreateIdempotent ==
    [][\A sid \in SessionIds :
          CreateClientDirect(sid) /\ clients[sid] # 0
          => /\ whOp'.ret = "reused"
             /\ whOp'.h = clients[sid]
             /\ RegistryUnchanged]_vars

C3_Witness ==
    /\ whOp.op = "createClient"
    /\ whOp.ret = "reused"
    /\ whOp.h = clients[whOp.sid]
    /\ Cardinality({s \in SessionIds : clients[s] # 0}) = maxSessions

\* The last step was the return of a destroySession(sid) call during which
\* sid was not registered again.
JustDestroyed(sid) == whOp.op = "destroySession" /\ whOp.sid = sid /\ whOp.clean

\* C4 as stated, for a session that was registered: a destroySession(sid)
\* called right after the destroySession(sid) that destroyed its client
\* returned does not raise, leaves the registry alone and returns success
\* (true).
C4_SecondDestroySucceeds ==
    [][\A sid \in SessionIds :
          /\ JustDestroyed(sid) /\ whOp.h # 0
          /\ \E k \in Calls : DestroySession(k, sid)
          => whOp'.op = "destroySession" /\ whOp'.ret = "true" /\ RegistryUnchanged]_vars

\* C4 amended: a destroySession(sid) called right after destroySession(sid)
\* returned does not raise and leaves the registry alone; it returns at once
\* with false (session not found), not with true.
C4_SecondDestroyNoOp ==
    [][\A sid \in SessionIds :
          JustDestroyed(sid) /\ (\E k \in Calls : DestroySession(k, sid))
          => /\ whOp'.op = "destroySession" /\ whOp'.sid = sid
             /\ whOp'.ret = "false"
             /\ RegistryUnchanged /\ UNCHANGED calls]_vars

C4_Witness ==
    /\ whOp.op = "destroySession"
    /\ whOp.again
    /\ whOp.ret = "false"
    /\ clients[whOp.sid] = 0

\* C5: whenever destroySession returns, it returns true or false (it never
\* throws), the client it looked up is no longer registered, and the session
\* id is absent from the registry unless a createClient registered it anew
\* while the call was running; this on the path where destroy() resolved and
\* on the path through the catch block.
C5_DestroyAlwaysRemoves ==
    whOp.op = "destroySession"
    => /\ whOp.ret \in {"true", "false"}
       /\ whOp.h # 0 => clients[whOp.sid] # whOp.h
       /\ whOp.clean => clients[whOp.sid] = 0

\* destroySession returned from its catch block.
C5_Witness ==
    /\ whOp.op = "destroySession"
    /\ whOp.h # 0
    /\ whOp.ret = "false"
    /\ whOp.clean
    /\ clients[whOp.sid] = 0

\* C1: the SessionManager never holds more than one Client that was
\* constructed and not yet destroyed (it drives the single session
\* 'whatsapp-auto-bot').
C1_OneLiveAdapter == Cardinality(LiveAdapters) <= 1

\* C6: while an explicit stop stands (stopClient returned and no start or
\* restart command came since), no Client is constructed.
C6_StopStaysStopped == [][stopped /\ stopped' => smNext' = smNext]_vars

\* C7: from a fresh Client with the counter at 0 and nothing else going on,
\* the first maxQrRetries 'qr' events start no restart; the next one starts
\* exactly one restartClient, which destroys the Client, resets the counter
\* and, after its sleep, constructs exactly one new Client, which is then
\* the only live one, not authenticated, with the counter at 0.  scn counts
\* the steps of such a run: the 'qr' events are handled one after the other,
\* destroy() resolves, and no other command or event comes in between.
C7_FourthQrRestartsOnce ==
    /\ scn \in 0..maxQrRetries =>
          /\ qrRetries = scn
          /\ Waiting(restarting) = 0 /\ sleeping = 0
          /\ LiveAdapters = {client} /\ smNext = client + 1
    /\ scn = maxQrRetries + 1 =>
          /\ qrRetries = maxQrRetries + 1
          /\ restarting[client] = 1 /\ Waiting(restarting) = 1 /\ sleeping = 0
          /\ LiveAdapters = {client} /\ smNext = client + 1
    /\ scn = maxQrRetries + 2 =>
          /\ qrRetries = 0 /\ ~isReady
          /\ Waiting(restarting) = 0 /\ sleeping = 1
          /\ LiveAdapters = {} /\ smNext = client + 1
    /\ scn = maxQrRetries + 3 =>
          /\ qrRetries = 0 /\ ~isReady
          /\ Waiting(restarting) = 0 /\ sleeping = 0
          /\ LiveAdapters = {client} /\ smSt[client] = "unauth"
          /\ smSt[client - 1] = "dead" /\ smNext = client + 1

C7_Witness == scn = maxQrRetries + 3 /\ qrRetries = 0 /\ smSt[client] = "unauth"

\* C8: with the quota of 2 (MESSAGE_RATE_LIMIT unset or "2"), checkRateLimit
\* answers as a fixed-window counter does: it allows an attempt while the
\* contact's count in the current 60 s window is below 2, denies the third
\* attempt of a window and allows again once the window has elapsed.
C8_FixedWindowCounter ==
    rlOp.op = "check" /\ envLimit \in {<<>>, <<2>>} => rlOp.ret = rlOp.want

\* The last n elements of a sequence, in their order.
LastN(a, n) == IF Len(a) <= n THEN a ELSE [i \in 1..n |-> a[Len(a) - n + i]]

\* C9: for every contact both stored histories hold at most 10 entries, and
\* they are the last entries stored for the contact in the order they were
\* stored: the oldest ones are dropped first.
C9_HistoryCapped ==
    \A c \in Contacts :
        /\ Len(conversationHistory[c]) <= 10
        /\ conversationHistory[c] = LastN(convLog[c], 10)
        /\ Len(chatHistory[c]) <= 10
        /\ chatHistory[c] = LastN(chatLog[c], 10)

\* Both histories of a contact have dropped entries.
C9_Witness ==
    \E c \in Contacts :
        /\ Len(convLog[c]) > 10 /\ Len(conversationHistory[c]) = 10
        /\ Len(chatLog[c]) > 10 /\ Len(chatHistory[c]) = 10

\* C10: an inbound message that passed the filters, from a contact with
\* fewer than 2 replies in the last 60 s, for which every call of the
\* completion service and every send succeeded, has got exactly one reply,
\* has added exactly one exchange to the contact's history and has raised
\* the sent-message counter by exactly 1 once its handling is over.
C10_ExactlyOneReply ==
    \A m \in Messages :
        Handled(m) /\ msgs[m].elig /\ msgs[m].ok
        => msgs[m].delivered = 1 /\ msgs[m].turns = 1 /\ msgs[m].sent = 1


\* C11: when the completion service fails, the fallback text generateReply
\* returns is delivered to the contact and the exchange is stored as a turn
\* of the contact's history.
C11_FallbackRecorded ==
    \A m \in Messages, e \in Events :
        msgs[m].text[e] = "fallbackSet" /\ msgs[m].pc[e] = "done" /\ ~msgs[m].threw[e]
        => msgs[m].delivered >= 1 /\ msgs[m].turns >= 1


\* C12: a message sent in a group chat is dropped by both message paths: its
\* handlers send no reply and no apology, do not call generateReply, and
\* leave the histories, the rate limits and the sent counters as they were.
C12_GroupDropped ==
    srvMsg.group => srvMsg.engine = 0 /\ srvMsg.sends = 0 /\ srvMsg.apol = 0


\* C13: a handler of an inbound message ends without an error reaching its
\* caller; a handler in which getting the contact or delivering the reply
\* threw has attempted the apology exactly once, whether or not that send
\* failed, and a handler in which nothing threw has attempted none.
C13_ApologyOnce ==
    \A m \in Messages, e \in Events :
        /\ msgs[m].apol[e] = IF msgs[m].threw[e] THEN 1 ELSE 0
        /\ msgs[m].threw[e] => msgs[m].pc[e] \in {"fallback", "done"}

\* A handler has ended after the reply threw and the apology failed too.
C13_Witness ==
    \E m \in Messages, e \in Events :
        /\ msgs[m].pc[e] = "done" /\ msgs[m].threw[e] /\ msgs[m].apol[e] = 1
        /\ msgs[m].text[e] = "ai" /\ msgs[m].delivered = 0

\* C14: when canReply refuses the contact, generateReply returns null and
\* the handler ends at once: it sends neither a reply nor an apology and
\* leaves the contact's history and the sent counter as they were.
C14_DeniedSendsNothing ==
    [][\A m \in Messages, e \in Events :
          msgs[m].text[e] # "null" /\ msgs'[m].text[e] = "null"
          => /\ msgs'[m].pc[e] = "done"
             /\ msgs'[m].apol[e] = 0
             /\ msgs'[m].delivered = msgs[m].delivered
             /\ chatHistory' = chatHistory
             /\ messageCount' = messageCount]_vars

\* A handler has ended on a refusal, nothing delivered for its message.
C14_Witness ==
    \E m \in Messages, e \in Events :
        /\ msgs[m].text[e] = "null" /\ msgs[m].pc[e] = "done"
        /\ msgs[m].delivered = 0 /\ chatHistory[msgs[m].from] # <<>>


\* The session is FAILED: this.client is a Client that reported auth_failure.
SessionFailed == client # 0 /\ smSt[client] = "failed"
\* The step calls restartClient from the reconnect timer or the 'qr' handler.
AutomaticRestart ==
    \/ timers' < timers
    \/ qrPending' < qrPending
         /\ (Waiting(restarting') > Waiting(restarting) \/ sleeping' > sleeping)

\* C15: while the session is FAILED it is not ready, and neither the
\* reconnect timer nor the 'qr' handler restarts the client.
C15_FailedIsAbsorbing ==
    [][SessionFailed /\ SessionFailed' => ~isReady' /\ ~AutomaticRestart]_vars


\* The step is the return of shutdown.
ShutdownReturned == shut'.pc = "done" /\ shut' # shut

\* C16 as stated: shutdown starts the destruction of every registered
\* session, returns once every destruction has settled, resolved or
\* rejected, and leaves the registry empty.
C16_ShutdownEmptiesRegistry ==
    [][ShutdownReturned
       => /\ \A s \in SessionIds : shut'.d[s].pc \in {"none", "settled"}
          /\ RegisteredAfter = {}]_vars

\* C16 amended: shutdown starts the destruction of every session registered
\* when it is called and returns once every destruction has settled,
\* resolved or rejected; the registry then holds no client that was
\* registered when shutdown was called, only clients that createClient
\* constructed while it ran.
C16_ShutdownRemovesItsSessions ==
    [][/\ shut.pc # "awaiting" /\ shut'.pc = "awaiting"
          => \A s \in SessionIds : HasClient(s) => shut'.d[s].pc = "awaitDestroy"
       /\ ShutdownReturned
          => /\ \A s \in SessionIds : shut'.d[s].pc \in {"none", "settled"}
             /\ \A s \in RegisteredAfter : clients'[s] >= shut'.first]_vars

\* shutdown has returned after destroying two sessions, one destroy()
\* rejected, and the registry is empty.
C16_Witness ==
    /\ shut.pc = "done"
    /\ Cardinality({s \in SessionIds : shut.d[s].pc = "settled"}) = maxSessions
    /\ \E s \in SessionIds : shut.d[s].pc = "settled" /\ waSt[shut.d[s].h] = "live"
    /\ Registered = {}

\* C17: the listing never waits on a state query that will not answer: a
\* client whose getState() never settles cannot hold up getAllSessions.
C17_ListingNeverBlocked == ~(list.pc = "awaiting" /\ ~StateQueryAnswers(list.h))


\* C18: a sendMessage call made while the session is not ready returns the
\* not-ready failure and calls no Client; and no step of a sendMessage call
\* changes a history, a rate limit or the sent counter.
C18_SendRefusedWhenNotReady ==
    [][sendOp' # sendOp
       => /\ sendOp.pc = "idle" /\ ~isReady
             => sendOp' = [pc |-> "idle", ret |-> "notReady", h |-> 0]
          /\ UNCHANGED <<conversationHistory, chatHistory, rateLimits, srvRate,
                         lastReplyTime, messageCount, messagesSent>>]_vars

\* The last sendMessage call was refused while a Client was starting up.
C18_Witness ==
    /\ sendOp = [pc |-> "idle", ret |-> "notReady", h |-> 0]
    /\ client # 0 /\ smSt[client] = "authed" /\ ~isReady


\* C20: a clearChatHistory call leaves its contact without a chat history,
\* whether or not it had one, and changes neither the history of another
\* contact nor a rate limit.
C20_ClearRemovesOneHistory ==
    [][histOp'.op = "clear"
       => /\ chatHistory'[histOp'.c] = <<>>
          /\ \A d \in Contacts \ {histOp'.c} : chatHistory'[d] = chatHistory[d]
          /\ UNCHANGED <<conversationHistory, lastReplyTime, rateLimits, srvRate>>]_vars

\* The last call cleared the history of a contact that had one and was
\* rate limited, while another contact had a history too.
C20_Witness ==
    /\ histOp.op = "clear" /\ histOp.had
    /\ lastReplyTime[histOp.c] # <<>>
    /\ \E d \in Contacts \ {histOp.c} : chatHistory[d] # <<>>

\* The last call cleared the history of a contact that had none.
C20_WitnessNoHistory ==
    /\ histOp.op = "clear" /\ ~histOp.had
    /\ \E d \in Contacts \ {histOp.c} : chatHistory[d] # <<>>


\* C19: the typing delay is the smaller of base + 30 ms per character of
\* the reply and the maximum, so it never exceeds the maximum; the base
\* lies between the minimum and the maximum when these are in order; and
\* with minimum 1000, maximum 3000 and a reply of 100 characters the delay
\* is 3000 whatever the base.
C19_TypingDelayCapped ==
    delayOp.op = "delay"
    => /\ delayOp.delay = IF delayOp.base + 30 * delayOp.len < delayOp.max
                          THEN delayOp.base + 30 * delayOp.len
                          ELSE delayOp.max
       /\ delayOp.delay <= delayOp.max
       /\ delayOp.min <= delayOp.max
            => delayOp.min <= delayOp.base /\ delayOp.base <= delayOp.max
       /\ delayOp.min = 1000 /\ delayOp.max = 3000 /\ delayOp.len = 100
            => delayOp.delay = 3000

\* A reply of 100 characters with the default bounds and a base strictly
\* between them.
C19_Witness ==
    /\ delayOp.op = "delay"
    /\ delayOp.min = 1000 /\ delayOp.max = 3000 /\ delayOp.len = 100
    /\ 1000 < delayOp.base /\ delayOp.base < 3000
    /\ delayOp.delay = 3000


\* C21: when createWhatsAppSession has failed, in the construction of the
\* client or in its initialisation, no client is registered for its session
\* id and the id is not in activeSessions.
C21_FailedCreationLeavesNothing ==
    mkOp.ret \in {"ctorThrew", "initThrew"}
    => ~HasClient(mkOp.sid) /\ mkOp.sid \notin activeSessions


EngineCalls(m) ==
    {e \in Events : msgs[m].pc[e] = "generate" \/ msgs[m].text[e] # "none"}

\* C24: an inbound message is processed at most once, although the handler
\* is subscribed to 'message_create' and to 'message': at most one handler
\* of the message calls generateReply and at most one reply is delivered
\* for it.
C24_ProcessedOnce ==
    \A m \in Messages :
        Cardinality(EngineCalls(m)) <= 1 /\ msgs[m].delivered <= 1


\* The calls canReply has let pass in the minute that ends at time t.
PassedInMinute(t) ==
    {f \in Flights : flight[f].at >= 0 /\ t - oneMinute < flight[f].at /\ flight[f].at <= t}

\* C23: however the generateReply calls for a contact overlap, canReply
\* lets no more of them pass in one minute than the quota of the minute.
C23_QuotaNeverExceeded ==
    \A f \in Flights :
        flight[f].at >= 0
        => Cardinality(PassedInMinute(flight[f].at)) <= maxMessagesPerMinute

\* C25: the messages of a session are handled one at a time in the order
\* they arrived: no call of the handler starts before the call for the
\* previous message has ended, and the replies get through in the order of
\* their messages.
C25_OneAtATimeInOrder ==
    /\ Cardinality({f \in Flights : flight[f].pc \notin {"idle", "done"}}) <= 1
    /\ \A i, j \in DOMAIN sentOrder : i < j => sentOrder[i] < sentOrder[j]

\* C26: no update of a contact's entries is lost: a call that canReply let
\* pass and that has returned from generateReply has left its time in
\* lastReplyTime, and a call that got a completion has its exchange in the
\* contact's history until later exchanges push it out at the cap.
C26_NoLostUpdate ==
    \A f \in Flights :
        /\ flight[f].text \in {"ai", "fallbackSet"}
           => /\ lastReplyTime[FlightContact] # <<>>
              /\ lastReplyTime[FlightContact][1] >= flight[f].at
        /\ flight[f].text = "ai"
           => \/ \E i \in DOMAIN chatHistory[FlightContact] :
                    chatHistory[FlightContact][i] = UserMessage(flight[f].turn)
              \/ Len(chatLog[FlightContact]) - 2 * flight[f].turn >= maxChatMessages


\* C27: a 'disconnected' event of a session that is not stopped is always
\* followed by the construction of a new Client, also when a restart on the
\* way fails: as long as none has been constructed and the session is not
\* stopped, a timer, a restartClient call or another callback is pending or
\* a Client is live to raise the next event.
C27_DisconnectRetried ==
    owed /\ ~stopped => ~Quiet(0)

\* C28: restartClient ignores an error of client.destroy(): whenever the
\* destroy() of a restartClient call settles, resolved or rejected, the call
\* goes on to the 3 s sleep with isReady false and qrRetries 0.
C28_RestartIgnoresDestroyError ==
    [][\A h \in Handles :
          restarting'[h] < restarting[h]
          => sleeping' = sleeping + 1 /\ ~isReady' /\ qrRetries' = 0]_vars


\* C29: a message that one of the filters matches (session not ready, from
\* self, from a group, older than five minutes, body empty after trimming)
\* is dropped with no reply of any kind, also when message.getContact()
\* fails: nothing is delivered for it, neither a reply nor the apology, and
\* no handler of it calls generateReply.
C29_FilteredDroppedSilently ==
    \A m \in Messages :
        msgs[m].drop => msgs[m].delivered = 0 /\ EngineCalls(m) = {}


\* C30: generateReply never throws: when the completion service times out,
\* answers with a status outside 2xx or with a malformed payload, it
\* returns the fallback reply of the language detected for the incoming
\* text.
C30_FallbackOfDetectedLanguage ==
    fbOp.failure \in Failures
    => fbOp.ret = "fallback" /\ fbOp.language = fbOp.detected


\* The entry of contact c that limits its replies is stale at time t: the
\* window of an AIReply limit ended more than five minutes ago, the last
\* reply of GeminiAI is older than a day.
StaleLimit(c) ==
    \/ /\ sweep.rateLimits[c] # <<>>
       /\ sweep.now > sweep.rateLimits[c][1].resetTime + staleLimitMs
    \/ /\ sweep.lastReplyTime[c] # <<>>
       /\ sweep.now - sweep.lastReplyTime[c][1] > oneDay

\* C31: right after a sweep of AIReply or of GeminiAI no history of the
\* swept object has a last entry older than 24 hours, and no entry that
\* limits the replies of a contact is stale.  (That a history with a last
\* entry within 24 hours is kept as it is holds by cleanupOldConversations
\* and cleanup returning such a history unchanged.)
C31_SweepLeavesNothingStale ==
    /\ sweep.op = "cleanupOldConversations"
       => \A c \in Contacts :
             /\ sweep.conversationHistory[c] # <<>>
                => sweep.now - Last(sweep.conversationHistory[c]) <= maxAge
             /\ sweep.rateLimits[c] = <<>>
                \/ sweep.now <= sweep.rateLimits[c][1].resetTime + staleLimitMs
    /\ sweep.op = "cleanup"
       => \A c \in Contacts :
             /\ sweep.chatHistory[c] # <<>>
                => sweep.now - Last(sweep.chatHistory[c]) <= oneDay
             /\ ~StaleLimit(c)


\* What the text is made of.
HasLatin(text) == \E i \in DOMAIN text : text[i] \in {"latin", "marker"}
HasDevanagari(text) == \E i \in DOMAIN text : text[i] = "devanagari"
HasMarker(text) == \E i \in DOMAIN text : text[i] = "marker"

\* C32: detectLanguage puts the mixed style first: a text with Latin
\* letters and Devanagari characters, or with Latin letters and a marker
\* word, is hinglish; a text of Latin words without a marker word is
\* english, a text of Devanagari alone is hindi, and a text with neither
\* script is hinglish.
C32_MixedStyleFirst ==
    LET text == fbOp.text IN
    fbOp.ret # "none"
    => fbOp.detected =
          IF HasLatin(text) /\ (HasDevanagari(text) \/ HasMarker(text)) THEN "hinglish"
          ELSE IF HasLatin(text) THEN "english"
          ELSE IF HasDevanagari(text) THEN "hindi"
          ELSE "hinglish"


\* C33: isReady is true only while this.client is live: it is not null, it
\* is the Client that reported 'ready', and no restartClient or stopClient
\* call has started to destroy it, so that sendMessage, which goes by
\* isReady, never sends through a Client being destroyed.
C33_ReadyOnlyWhileLive ==
    isReady
    => /\ client # 0
       /\ smSt[client] = "ready"
       /\ restarting[client] = 0 /\ stopping[client] = 0


\* C34: whenever no createWhatsAppSession call is in progress, the session
\* ids of activeSessions are the session ids of WhatsAppHandler.clients,
\* so that a session removed by cleanupInactiveSessions frees its place.
C34_RegistriesAgree ==
    mkOp.pc = "idle" => activeSessions = Registered

\* C35: the session of a client that reported 'disconnected' or
\* 'auth_failure' is not in activeSessions afterwards, also when the event
\* came while createWhatsAppSession was awaiting client.initialize().  (A
\* client is dead after such an event, after an initialize() that failed
\* and after the cleanup; session ids are not used twice.)
C35_EndedSessionNotActive ==
    \A h \in ClientHandles : waSt[h] = "dead" => waSid[h] \notin activeSessions


\* C36: restartSession(id) of a registered session always ends with id
\* registered again with a new Client, whatever createClient calls for
\* other ids ran during its 2 s wait, also when the registry was full before
\* the restart.  A Client constructor that throws, and a createClient of
\* the same id during the wait, are left aside.
C36_RestartRegistersAgain ==
    [][\A k \in Calls :
          /\ calls[k].pc = "wait" /\ calls[k].h # 0 /\ calls'[k].pc = "idle"
          /\ whOp'.ret \notin {"ctorThrew", "reused"}
          => /\ whOp'.ret = "created"
             /\ clients'[calls[k].sid] = whOp'.h
             /\ whOp'.h # calls[k].h]_vars


\* C37: fallback replies count against the rate limit of
\* GeminiAI.generateReply: with the calls made one after the other, two
\* texts returned for one contact, generated or fallback, are never less
\* than 60 s / maxMessagesPerMinute apart, also when generateContent fails.
C37_ResultsSpaced ==
    \A c \in Contacts : \A i, j \in DOMAIN genOp.results[c] :
        i < j => genOp.results[c][j] - genOp.results[c][i]
                    >= oneMinute \div maxMessagesPerMinute


\* The handlers whose generated reply is delivered in this step: they leave
\* sendReplyWithTyping without an error.
DeliveredNow ==
    {me \in Messages \X Events :
        /\ msgs[me[1]].pc[me[2]] = "send"
        /\ msgs'[me[1]].pc[me[2]] = "done"
        /\ msgs'[me[1]].delivered = msgs[me[1]].delivered + 1}

\* C38: messageCount never decreases and counts the generated replies
\* whose delivery through sendReplyWithTyping succeeded: every step adds
\* to it the number of replies delivered in that step, so that a failed
\* delivery, a suppressed message, a filtered message and an apology leave
\* it as it is.
C38_CountsDeliveredReplies ==
    [][/\ messageCount' >= messageCount
       /\ messageCount' - messageCount = Cardinality(DeliveredNow)]_vars

\* A reply was counted, and the handler of another message, whose delivery
\* failed, has sent its apology and returned.
C38_Witness ==
    /\ messageCount = 1
    /\ \E m \in Messages, e \in Events :
          /\ msgs[m].pc[e] = "done" /\ msgs[m].threw[e] /\ msgs[m].apol[e] = 1
          /\ msgs[m].text[e] \in {"ai", "fallbackSet"}
          /\ msgs[m].sent = 0


\* C39: at most one status timer runs per SessionManager after any sequence
\* of ready, disconnected, restart and stop events, and a session that is
\* stopped or has no ready Client has none left from an earlier 'ready'.
C39_OneStatusTimer ==
    /\ statsTimers <= 1
    /\ (stopped \/ ~isReady) => statsTimers = 0

====
